---- MODULE Spec2Model ----
(***************************************************************************)
(* A model of hyperdb: the Blockchain of blockchain.py (blocks, pending    *)
(* transactions, proof-of-work sealing, chain verification) and the        *)
(* HyperledgerIntegratedDB of core/hyperledger_integrated_db.py that       *)
(* validates records, persists them through one sqlite3 connection and    *)
(* stages one ledger transaction per mutation.                             *)
(*                                                                         *)
(* Python values: None is the empty tuple and a present optional value x   *)
(* is <<x>>; a dict is a TLA+ record (a function on its keys), the empty   *)
(* dict the function on no key; a payload value is tagged with its Python  *)
(* type; a hex digest is a sequence of digits 0..15; time.time() is a      *)
(* non-decreasing reading of a bounded clock; uuid4() is a fresh counter.  *)
(***************************************************************************)
EXTENDS Integers, Sequences, FiniteSets, TLC

(* ------------------------------- bounds -------------------------------- *)
\* blocks a chain may hold, the genesis block included
MaxChain == 3
\* transactions the pending list may hold when add_transaction is called directly
MaxPending == 2
\* largest reading of the clock
MaxTime == 1
\* largest proof-of-work difficulty a session is opened with
MaxDifficulty == 1
\* hex characters of a digest (64 for SHA-256)
HashLen == 2
\* uuid4 values one session may draw
MaxIds == 7
\* update_data calls of one session that reach the UPDATE
MaxUpdates == 1
\* uuid4 values drawn in a session in which a database write may fail
MaxFaultIds == 4

(* ------------------------- constants of the code ----------------------- *)
\* a hexdigest is written with 16 different characters
HexBase == 16
\* Blockchain.mining_reward
mining_reward == 10

(* ------------------------------ Python values --------------------------- *)
None == <<>>
Some(x) == <<x>>
EmptyDict == <<>>

\* d.get(k): None when the key is absent
Get(d, k) == IF k \in DOMAIN d THEN Some(d[k]) ELSE None

Min(a, b) == IF a <= b THEN a ELSE b

\* the readings time.time() can give when the last reading was n
Ticks(n) == {n, Min(n + 1, MaxTime)}

Last(s) == s[Len(s)]

(* ------------------------------- the digest ----------------------------- *)
RECURSIVE Pow(_, _)
Pow(b, e) == IF e = 0 THEN 1 ELSE b * Pow(b, e - 1)

HashMod == Pow(HexBase, HashLen)

\* one absorption step of the digest
Mix(h, x) == (h * 31 + x + 7) % HashMod

StrCode(s) ==
    CASE s = "system" -> 1
      [] s = "alice" -> 2
      [] s = "bob" -> 3
      [] s = "miner" -> 4
      [] s = "model_creation" -> 5
      [] s = "data_creation" -> 6
      [] s = "data_update" -> 7
      [] s = "Item" -> 8
      [] s = "Ghost" -> 9
      [] s = "qty" -> 10
      [] s = "note" -> 11
      [] s = "integer" -> 12
      [] s = "text" -> 13
      [] s = "str" -> 14
      [] s = "int" -> 15
      [] s = "bool" -> 16
      [] s = "float" -> 17
      [] s = "memo" -> 18
      [] s = "1.0" -> 19
      [] s = "" -> 20
      [] OTHER -> 21

\* a payload value as json.dumps writes it: a tuple is written as a list
JsonValue(v) == IF v.ty = "tuple" THEN [v EXCEPT !.ty = "list"] ELSE v

\* a tagged payload value
ValCode(v) == StrCode(JsonValue(v).ty) * 5 + v.v

RECURSIVE KeysCode(_, _)
KeysCode(d, keys) ==
    IF keys = {} THEN 0
    ELSE LET k == CHOOSE x \in keys : TRUE
         IN  (StrCode(k) * 3 + ValCode(d[k]) + KeysCode(d, keys \ {k})) % HashMod

\* a payload dict {field: value}
PayloadCode(p) == KeysCode(p, DOMAIN p)

OptCode(o) == IF o = None THEN 0 ELSE 1 + ValCode(o[1])

BoolCode(b) == IF b THEN 1 ELSE 0

RECURSIVE FieldsCode(_)
FieldsCode(fs) ==
    IF fs = <<>> THEN 0
    ELSE Mix(Mix(Mix(Mix(FieldsCode(Tail(fs)), StrCode(Head(fs).name)),
                     StrCode(Head(fs).type)), BoolCode(Head(fs).required)),
             OptCode(Head(fs).default))

\* the dict DataModel.to_dict gives
SchemaCode(m) ==
    Mix(Mix(Mix(StrCode(m.name), FieldsCode(m.fields)), m.created_at), StrCode(m.version))

\* the dict a transaction of the store carries under 'data'
InnerCode(x) ==
    LET a == IF "record_id" \in DOMAIN x THEN x.record_id ELSE 0
        b == IF "model_name" \in DOMAIN x THEN StrCode(x.model_name) ELSE 0
        c == IF "data" \in DOMAIN x THEN 1 + PayloadCode(x.data) ELSE 0
        d == IF "previous_data" \in DOMAIN x THEN 1 + PayloadCode(x.previous_data) ELSE 0
        e == IF "new_data" \in DOMAIN x THEN 1 + PayloadCode(x.new_data) ELSE 0
        f == IF "created_at" \in DOMAIN x THEN 1 + x.created_at ELSE 0
        g == IF "updated_at" \in DOMAIN x THEN 1 + x.updated_at ELSE 0
        s == IF "schema" \in DOMAIN x THEN 1 + SchemaCode(x.schema) ELSE 0
    IN  Mix(Mix(Mix(Mix(Mix(Mix(Mix(Mix(0, a), b), c), d), e), f), g), s)

\* the dict a ledger transaction carries under 'data': empty, a caller's own
\* mapping, or a transaction of the store
DataCode(d) ==
    IF DOMAIN d = {} THEN 0
    ELSE IF "id" \in DOMAIN d
         THEN Mix(Mix(Mix(Mix(1, d.id), StrCode(d.type)), d.timestamp), InnerCode(d.data))
         ELSE Mix(2, d.memo)

TxCode(tx) ==
    Mix(Mix(Mix(Mix(Mix(0, StrCode(tx.sender)), StrCode(tx.recipient)), tx.amount),
            DataCode(tx.data)), tx.timestamp)

RECURSIVE TxsCode(_)
TxsCode(txs) ==
    IF txs = <<>> THEN 3
    ELSE Mix(TxsCode(SubSeq(txs, 1, Len(txs) - 1)), TxCode(Last(txs)))

RECURSIVE HexCode(_)
HexCode(h) ==
    IF h = <<>> THEN 0
    ELSE (HexCode(SubSeq(h, 1, Len(h) - 1)) * HexBase + Last(h)) % HashMod

\* the hex digits of n, most significant first
Digest(n) == [i \in 1..HashLen |-> (n \div Pow(HexBase, HashLen - i)) % HexBase]

\* what one increment of the nonce adds to the absorbed value
NonceStep == Pow(HexBase, HashLen - 1) + 1

(* ------------------------------- Block ---------------------------------- *)
\* Block.calculate_hash: the digest of the key-sorted JSON of the five fields
calculate_hash(b) ==
    Digest((Mix(Mix(Mix(Mix(0, b.index), HexCode(b.previous_hash)), b.timestamp),
                TxsCode(b.transactions)) * 31 + b.nonce * NonceStep + 7) % HashMod)

\* Block.__init__
Block(index, transactions, timestamp, previous_hash, nonce) ==
    LET b == [index |-> index, transactions |-> transactions, timestamp |-> timestamp,
              previous_hash |-> previous_hash, nonce |-> nonce, hash |-> <<>>]
    IN  [b EXCEPT !.hash = calculate_hash(b)]

\* "0" * n
Zeros(n) == [i \in 1..n |-> 0]

\* s[:n]
Prefix(s, n) == SubSeq(s, 1, Min(n, Len(s)))

(* ----------------------------- Blockchain ------------------------------- *)
\* mutant of create_genesis_block: the genesis block is given a nonce of 1
create_genesis_block_Nonce1(t) == Block(0, <<>>, t, <<0>>, 1)

\* Blockchain.create_genesis_block
create_genesis_block(t) == Block(0, <<>>, t, <<0>>, 0)

get_latest_block(ch) == Last(ch)

\* the dict add_transaction builds; data is the optional argument (data or {})
Transaction(sender, recipient, amount, data, t) ==
    [sender |-> sender, recipient |-> recipient, amount |-> amount,
     data |-> IF data = None \/ data[1] = EmptyDict THEN EmptyDict ELSE data[1],
     timestamp |-> t]

\* mutant of add_transaction: the transaction is put first in the pending list
add_transaction_Prepend(ch, pend, sender, recipient, amount, data, t) ==
    [pending |-> <<Transaction(sender, recipient, amount, data, t)>> \o pend,
     ret |-> Len(ch) + 1]

\* Blockchain.add_transaction on chain ch and pending list pend: the new
\* pending list and the index returned
add_transaction(ch, pend, sender, recipient, amount, data, t) ==
    [pending |-> Append(pend, Transaction(sender, recipient, amount, data, t)),
     ret |-> Len(ch) + 1]

\* mutant of mine_block: the search stops one zero short
mine_block_OffByOne(block, d) ==
    IF d = 0 THEN block
    ELSE LET RECURSIVE Search(_)
             Search(b) ==
                 IF Prefix(b.hash, d - 1) = Zeros(d - 1) THEN b
                 ELSE LET n == [b EXCEPT !.nonce = b.nonce + 1]
                      IN  Search([n EXCEPT !.hash = calculate_hash(n)])
         IN  Search(block)

\* mutant of mine_block: the nonce is raised before the first test
mine_block_FromOne(block, d) ==
    LET RECURSIVE Search(_)
        Search(b) ==
            LET n == [b EXCEPT !.nonce = b.nonce + 1]
                h == [n EXCEPT !.hash = calculate_hash(n)]
            IN  IF Prefix(h.hash, d) = Zeros(d) THEN h ELSE Search(h)
    IN  Search(block)

\* Blockchain.mine_block: raise the nonce until the hash starts with d zeros
RECURSIVE mine_block(_, _)
mine_block(block, d) ==
    IF Prefix(block.hash, d) = Zeros(d) THEN block
    ELSE LET n == [block EXCEPT !.nonce = block.nonce + 1]
         IN  mine_block([n EXCEPT !.hash = calculate_hash(n)], d)

\* the reward transaction of lines 84-92
RewardTx(miner, t) ==
    [sender |-> "system", recipient |-> miner, amount |-> mining_reward,
     data |-> EmptyDict, timestamp |-> t]

\* mutants of mine_pending_transactions: the previous hash taken from the
\* first block; the pending list reset in place, under the block that holds
\* it; the index one too high; the pending list kept
mine_pending_transactions_BadPrev(ch, pend, d, miner, t1, t2) ==
    LET block == mine_block(Block(Len(ch), pend, t1, ch[1].hash, 0), d)
    IN  [chain |-> Append(ch, block), pending |-> <<RewardTx(miner, t2)>>, ret |-> block]

mine_pending_transactions_Aliased(ch, pend, d, miner, t1, t2) ==
    LET block == mine_block(Block(Len(ch), pend, t1, get_latest_block(ch).hash, 0), d)
        held == [block EXCEPT !.transactions = <<RewardTx(miner, t2)>>]
    IN  [chain |-> Append(ch, held), pending |-> <<RewardTx(miner, t2)>>, ret |-> held]

mine_pending_transactions_BadIndex(ch, pend, d, miner, t1, t2) ==
    LET block == mine_block(Block(Len(ch) + 1, pend, t1, get_latest_block(ch).hash, 0), d)
    IN  [chain |-> Append(ch, block), pending |-> <<RewardTx(miner, t2)>>, ret |-> block]

mine_pending_transactions_KeepPending(ch, pend, d, miner, t1, t2) ==
    LET block == mine_block(Block(Len(ch), pend, t1, get_latest_block(ch).hash, 0), d)
    IN  [chain |-> Append(ch, block), pending |-> Append(pend, RewardTx(miner, t2)),
         ret |-> block]

\* mutant of mine_pending_transactions: the first pending transaction is left out
mine_pending_transactions_DropFirst(ch, pend, d, miner, t1, t2) ==
    LET held == IF pend = <<>> THEN pend ELSE Tail(pend)
        block == mine_block(Block(Len(ch), held, t1, get_latest_block(ch).hash, 0), d)
    IN  [chain |-> Append(ch, block), pending |-> <<RewardTx(miner, t2)>>, ret |-> block]

\* mutant of mine_pending_transactions: no reward transaction is left pending
mine_pending_transactions_NoReward(ch, pend, d, miner, t1, t2) ==
    LET block == mine_block(Block(Len(ch), pend, t1, get_latest_block(ch).hash, 0), d)
    IN  [chain |-> Append(ch, block), pending |-> <<>>, ret |-> block]

\* mutant of mine_pending_transactions: the reward is put in the block as well
mine_pending_transactions_RewardInBlock(ch, pend, d, miner, t1, t2) ==
    LET block == mine_block(Block(Len(ch), Append(pend, RewardTx(miner, t1)), t1,
                                  get_latest_block(ch).hash, 0), d)
    IN  [chain |-> Append(ch, block), pending |-> <<RewardTx(miner, t2)>>, ret |-> block]

\* Blockchain.mine_pending_transactions on chain ch and pending list pend:
\* the new chain, the new pending list and the block returned
mine_pending_transactions(ch, pend, d, miner, t1, t2) ==
    LET block == mine_block(Block(Len(ch), pend, t1, get_latest_block(ch).hash, 0), d)
    IN  [chain |-> Append(ch, block), pending |-> <<RewardTx(miner, t2)>>, ret |-> block]

\* the inner loop of get_balance over the transactions of one block
TxsBalance(txs, address, balance) ==
    LET RECURSIVE Loop(_, _)
        Loop(i, bal) ==
            IF i > Len(txs) THEN bal
            ELSE LET b1 == IF txs[i].sender = address THEN bal - txs[i].amount ELSE bal
                     b2 == IF txs[i].recipient = address THEN b1 + txs[i].amount ELSE b1
                 IN  Loop(i + 1, b2)
    IN  Loop(1, balance)

\* mutant of get_balance: the recipient is tested only when the sender is not the address
get_balance_ElseIf(ch, address) ==
    LET RECURSIVE Txs(_, _, _)
        Txs(txs, i, bal) ==
            IF i > Len(txs) THEN bal
            ELSE Txs(txs, i + 1,
                     IF txs[i].sender = address THEN bal - txs[i].amount
                     ELSE IF txs[i].recipient = address THEN bal + txs[i].amount
                     ELSE bal)
        RECURSIVE Blocks(_, _)
        Blocks(i, bal) ==
            IF i > Len(ch) THEN bal ELSE Blocks(i + 1, Txs(ch[i].transactions, 1, bal))
    IN  Blocks(1, 0)

\* Blockchain.get_balance
get_balance(ch, address) ==
    LET RECURSIVE Loop(_, _)
        Loop(i, balance) ==
            IF i > Len(ch) THEN balance
            ELSE Loop(i + 1, TxsBalance(ch[i].transactions, address, balance))
    IN  Loop(1, 0)

\* Blockchain.is_chain_valid
is_chain_valid(ch) ==
    \A i \in 2..Len(ch) :
        /\ ch[i].hash = calculate_hash(ch[i])
        /\ ch[i].previous_hash = ch[i - 1].hash

(* ----------------------- DataField and DataModel ------------------------ *)
\* the DataField create_data_model builds from one field dict; None when the
\* dict has no 'name' or no 'type' (KeyError)
MakeField(field_data) ==
    IF "name" \notin DOMAIN field_data \/ "type" \notin DOMAIN field_data THEN None
    ELSE Some([name |-> field_data.name,
               type |-> field_data.type,
               required |-> IF "required" \in DOMAIN field_data THEN field_data.required ELSE TRUE,
               default |-> IF "default" \in DOMAIN field_data THEN Some(field_data.default) ELSE None,
               description |-> IF "description" \in DOMAIN field_data
                               THEN field_data.description ELSE ""])

\* lines 169-177: the list of DataField, None when one field dict raises
MakeFields(fields) ==
    IF \E i \in DOMAIN fields : MakeField(fields[i]) = None THEN None
    ELSE Some([i \in DOMAIN fields |-> MakeField(fields[i])[1]])

\* DataModel(name, fields, description): created_at is time.time(), version "1.0"
DataModel(name, data_fields, description, t) ==
    [name |-> name, fields |-> data_fields, description |-> description,
     created_at |-> t, version |-> "1.0"]

\* dataclasses.asdict of a DataField
asdict(f) ==
    [name |-> f.name, type |-> f.type, required |-> f.required,
     default |-> f.default, description |-> f.description]

\* DataModel.to_dict
to_dict(m) ==
    [name |-> m.name, fields |-> [i \in DOMAIN m.fields |-> asdict(m.fields[i])],
     description |-> m.description, created_at |-> m.created_at, version |-> m.version]

\* json.dumps and json.loads: the text is kept apart from the value it encodes
\* what json.dumps makes of a payload dict, of the dict of to_dict, of the
\* dict a transaction of the store carries under 'data', of a transaction
\* of the store and of the transactions of a block
JsonPayload(p) == [k \in DOMAIN p |-> JsonValue(p[k])]

JsonSchema(m) ==
    [m EXCEPT !.fields =
        [i \in DOMAIN @ |->
            [@[i] EXCEPT !.default = IF @ = None THEN None ELSE Some(JsonValue(@[1]))]]]

JsonInner(x) ==
    [k \in DOMAIN x |->
        IF k = "schema" THEN JsonSchema(x[k])
        ELSE IF k \in {"data", "previous_data", "new_data"} THEN JsonPayload(x[k])
        ELSE x[k]]

JsonStoreTx(transaction) == [transaction EXCEPT !.data = JsonInner(@)]

JsonTxs(txs) ==
    [i \in DOMAIN txs |->
        IF "id" \in DOMAIN txs[i].data THEN [txs[i] EXCEPT !.data = JsonStoreTx(@)]
        ELSE txs[i]]

\* the text json.dumps writes for a value in its JSON form
JsonDumps(x) == [json |-> x]
JsonLoads(s) == s.json

(* ------------------------------ validation ------------------------------ *)
\* isinstance(value, ...) of lines 392-405; bool is a subclass of int in Python
TypeOk(type, value) ==
    CASE type = "text" -> value.ty = "str"
      [] type = "integer" -> value.ty \in {"int", "bool"}
      [] type = "real" -> value.ty \in {"int", "bool", "float"}
      [] type = "boolean" -> value.ty = "bool"
      [] type = "datetime" -> value.ty \in {"int", "bool", "float", "str"}
      [] type = "json" -> value.ty \in {"dict", "list"}
      [] OTHER -> TRUE

\* d[k] = v
SetKey(d, k, v) == (k :> v) @@ d

\* HyperledgerIntegratedDB._validate_data over the fields in order: whether it
\* returns without raising, and the payload as it leaves it
RECURSIVE validate_data(_, _)
validate_data(data, fields) ==
    IF fields = <<>> THEN [ok |-> TRUE, data |-> data]
    ELSE LET field == Head(fields)
         IN  IF field.required /\ field.name \notin DOMAIN data
             THEN [ok |-> FALSE, data |-> data]
             ELSE LET d1 == IF field.name \notin DOMAIN data /\ field.default # None
                            THEN SetKey(data, field.name, field.default[1])
                            ELSE data
                  IN  IF field.name \in DOMAIN d1 /\ ~TypeOk(field.type, d1[field.name])
                      THEN [ok |-> FALSE, data |-> d1]
                      ELSE validate_data(d1, Tail(fields))

(* --------------------- HyperledgerIntegratedDB -------------------------- *)
\* A session s is the object's state (chain, pending, difficulty,
\* data_models, db, disk) with the next uuid4 value (nextId) and the last
\* reading of the clock (now).  A method gives the session after the call
\* and what it returns.  t1 and t2 are what time.time() gives the method and
\* the calls it makes; `fail` is the number of the cursor.execute or commit
\* call of the method that raises (0: none does).

\* connection.commit()
Commit(s) == [s EXCEPT !.disk = s.db]

\* mutant of add_to_blockchain: the row is inserted, the transaction is not staged
add_to_blockchain_NoStage(s, transaction_type, data, t, insertRaises) ==
    LET transaction_id == s.nextId
        transaction == [id |-> transaction_id, type |-> transaction_type, data |-> data,
                        timestamp |-> t, sender |-> "system", recipient |-> "system",
                        amount |-> 0]
        s1 == [s EXCEPT !.nextId = s.nextId + 1, !.now = t]
        row == [transaction_type |-> transaction_type,
                data_id |-> Get(data, "record_id"),
                model_name |-> Get(data, "model_name"),
                transaction_data |-> JsonDumps(JsonStoreTx(transaction)),
                timestamp |-> t,
                block_index |-> None]
    IN  IF insertRaises THEN [s |-> s1, ok |-> FALSE, ret |-> None]
        ELSE [s |-> [s1 EXCEPT !.db.blockchain_transactions = SetKey(@, transaction_id, row)],
              ok |-> TRUE, ret |-> Some(transaction_id)]

\* HyperledgerIntegratedDB._add_to_blockchain: stage the transaction, then
\* insert its row; ok is FALSE when the insert raises
add_to_blockchain(s, transaction_type, data, t, insertRaises) ==
    LET transaction_id == s.nextId
        transaction == [id |-> transaction_id, type |-> transaction_type, data |-> data,
                        timestamp |-> t, sender |-> "system", recipient |-> "system",
                        amount |-> 0]
        staged == add_transaction(s.chain, s.pending, "system", "system", 0,
                                  Some(transaction), t)
        s1 == [s EXCEPT !.nextId = s.nextId + 1, !.pending = staged.pending, !.now = t]
        row == [transaction_type |-> transaction_type,
                data_id |-> Get(data, "record_id"),
                model_name |-> Get(data, "model_name"),
                transaction_data |-> JsonDumps(JsonStoreTx(transaction)),
                timestamp |-> t,
                block_index |-> None]
    IN  IF insertRaises THEN [s |-> s1, ok |-> FALSE, ret |-> None]
        ELSE [s |-> [s1 EXCEPT !.db.blockchain_transactions = SetKey(@, transaction_id, row)],
              ok |-> TRUE, ret |-> Some(transaction_id)]

\* mutant of create_data_model: the model is stored in memory before the INSERT
create_data_model_Overwrite(s, name, fields, description, t1, t2, fail) ==
    LET data_fields == MakeFields(fields)
        data_model == DataModel(name, data_fields[1], description, t1)
        row == [schema_data |-> JsonDumps(JsonSchema(to_dict(data_model))),
                created_at |-> data_model.created_at, version |-> data_model.version]
        s0 == [s EXCEPT !.now = t1, !.data_models = SetKey(@, name, data_model)]
        s1 == [s0 EXCEPT !.db.data_models = SetKey(@, name, row)]
        a == add_to_blockchain(s1, "model_creation",
                               [model_name |-> name, schema |-> to_dict(data_model),
                                description |-> description], t2, fail = 2)
    IN  IF data_fields = None THEN [s |-> s, ret |-> FALSE]
        ELSE IF fail = 1 \/ name \in DOMAIN s.db.data_models THEN [s |-> s0, ret |-> FALSE]
        ELSE IF ~a.ok THEN [s |-> a.s, ret |-> FALSE]
        ELSE IF fail = 3 THEN [s |-> a.s, ret |-> FALSE]
        ELSE [s |-> Commit(a.s), ret |-> TRUE]

\* HyperledgerIntegratedDB.create_data_model
create_data_model(s, name, fields, description, t1, t2, fail) ==
    LET data_fields == MakeFields(fields)
        data_model == DataModel(name, data_fields[1], description, t1)
        row == [schema_data |-> JsonDumps(JsonSchema(to_dict(data_model))),
                created_at |-> data_model.created_at, version |-> data_model.version]
        s0 == [s EXCEPT !.now = t1]
        s1 == [s0 EXCEPT !.db.data_models = SetKey(@, name, row),
                         !.data_models = SetKey(@, name, data_model)]
        a == add_to_blockchain(s1, "model_creation",
                               [model_name |-> name, schema |-> to_dict(data_model),
                                description |-> description], t2, fail = 2)
    IN  IF data_fields = None THEN [s |-> s, ret |-> FALSE]
        ELSE IF fail = 1 \/ name \in DOMAIN s.db.data_models THEN [s |-> s0, ret |-> FALSE]
        ELSE IF ~a.ok THEN [s |-> a.s, ret |-> FALSE]
        ELSE IF fail = 3 THEN [s |-> a.s, ret |-> FALSE]
        ELSE [s |-> Commit(a.s), ret |-> TRUE]

\* mutant of add_data: the row is inserted before the payload is validated
add_data_InsertFirst(s, model_name, data, t1, t2, fail) ==
    LET v == validate_data(data, s.data_models[model_name].fields)
        record_id == s.nextId
        row == [model_name |-> model_name, data |-> JsonDumps(JsonPayload(data)),
                created_at |-> t1, updated_at |-> t1,
                blockchain_transaction_id |-> None, blockchain_block_index |-> None]
        s0 == [s EXCEPT !.nextId = s.nextId + 1, !.now = t1]
        s1 == [s0 EXCEPT !.db.data_records = SetKey(@, record_id, row)]
        a == add_to_blockchain(s1, "data_creation",
                               [record_id |-> record_id, model_name |-> model_name,
                                data |-> v.data, created_at |-> t1], t2, fail = 2)
        s2 == [a.s EXCEPT !.db.data_records[record_id].blockchain_transaction_id = a.ret]
    IN  IF model_name \notin DOMAIN s.data_models THEN [s |-> s, ret |-> None]
        ELSE IF fail = 1 THEN [s |-> s0, ret |-> None]
        ELSE IF ~v.ok THEN [s |-> s1, ret |-> None]
        ELSE IF ~a.ok THEN [s |-> a.s, ret |-> None]
        ELSE IF fail = 3 THEN [s |-> a.s, ret |-> None]
        ELSE IF fail = 4 THEN [s |-> s2, ret |-> None]
        ELSE [s |-> Commit(s2), ret |-> Some(record_id)]

\* mutant of add_data: the row is not linked to the staged transaction
add_data_NoLink(s, model_name, data, t1, t2, fail) ==
    LET v == validate_data(data, s.data_models[model_name].fields)
        record_id == s.nextId
        row == [model_name |-> model_name, data |-> JsonDumps(JsonPayload(v.data)),
                created_at |-> t1, updated_at |-> t1,
                blockchain_transaction_id |-> None, blockchain_block_index |-> None]
        s0 == [s EXCEPT !.nextId = s.nextId + 1, !.now = t1]
        s1 == [s0 EXCEPT !.db.data_records = SetKey(@, record_id, row)]
        a == add_to_blockchain(s1, "data_creation",
                               [record_id |-> record_id, model_name |-> model_name,
                                data |-> v.data, created_at |-> t1], t2, fail = 2)
    IN  IF model_name \notin DOMAIN s.data_models THEN [s |-> s, ret |-> None]
        ELSE IF ~v.ok THEN [s |-> s, ret |-> None]
        ELSE IF fail = 1 THEN [s |-> s0, ret |-> None]
        ELSE IF ~a.ok THEN [s |-> a.s, ret |-> None]
        ELSE IF fail = 3 THEN [s |-> a.s, ret |-> None]
        ELSE [s |-> Commit(a.s), ret |-> Some(record_id)]

\* mutant of add_data: the block index is written when the row is inserted
add_data_EagerIndex(s, model_name, data, t1, t2, fail) ==
    LET v == validate_data(data, s.data_models[model_name].fields)
        record_id == s.nextId
        row == [model_name |-> model_name, data |-> JsonDumps(JsonPayload(v.data)),
                created_at |-> t1, updated_at |-> t1,
                blockchain_transaction_id |-> None,
                blockchain_block_index |-> Some(Len(s.chain))]
        s0 == [s EXCEPT !.nextId = s.nextId + 1, !.now = t1]
        s1 == [s0 EXCEPT !.db.data_records = SetKey(@, record_id, row)]
        a == add_to_blockchain(s1, "data_creation",
                               [record_id |-> record_id, model_name |-> model_name,
                                data |-> v.data, created_at |-> t1], t2, fail = 2)
        s2 == [a.s EXCEPT !.db.data_records[record_id].blockchain_transaction_id = a.ret]
    IN  IF model_name \notin DOMAIN s.data_models THEN [s |-> s, ret |-> None]
        ELSE IF ~v.ok THEN [s |-> s, ret |-> None]
        ELSE IF fail = 1 THEN [s |-> s0, ret |-> None]
        ELSE IF ~a.ok THEN [s |-> a.s, ret |-> None]
        ELSE IF fail = 3 THEN [s |-> a.s, ret |-> None]
        ELSE IF fail = 4 THEN [s |-> s2, ret |-> None]
        ELSE [s |-> Commit(s2), ret |-> Some(record_id)]

\* HyperledgerIntegratedDB.add_data; ret is the record id or None
add_data(s, model_name, data, t1, t2, fail) ==
    LET v == validate_data(data, s.data_models[model_name].fields)
        record_id == s.nextId
        row == [model_name |-> model_name, data |-> JsonDumps(JsonPayload(v.data)),
                created_at |-> t1, updated_at |-> t1,
                blockchain_transaction_id |-> None, blockchain_block_index |-> None]
        s0 == [s EXCEPT !.nextId = s.nextId + 1, !.now = t1]
        s1 == [s0 EXCEPT !.db.data_records = SetKey(@, record_id, row)]
        a == add_to_blockchain(s1, "data_creation",
                               [record_id |-> record_id, model_name |-> model_name,
                                data |-> v.data, created_at |-> t1], t2, fail = 2)
        s2 == [a.s EXCEPT !.db.data_records[record_id].blockchain_transaction_id = a.ret]
    IN  IF model_name \notin DOMAIN s.data_models THEN [s |-> s, ret |-> None]
        ELSE IF ~v.ok THEN [s |-> s, ret |-> None]
        ELSE IF fail = 1 THEN [s |-> s0, ret |-> None]
        ELSE IF ~a.ok THEN [s |-> a.s, ret |-> None]
        ELSE IF fail = 3 THEN [s |-> a.s, ret |-> None]
        ELSE IF fail = 4 THEN [s |-> s2, ret |-> None]
        ELSE [s |-> Commit(s2), ret |-> Some(record_id)]

\* mutant of update_data: the new payload is merged into the stored one
update_data_Merge(s, record_id, data, t1, t2, fail) ==
    LET row == s.db.data_records[record_id]
        current_data == JsonLoads(row.data)
        model_name == row.model_name
        v == IF model_name \in DOMAIN s.data_models
             THEN validate_data(data, s.data_models[model_name].fields)
             ELSE [ok |-> TRUE, data |-> data]
        s0 == [s EXCEPT !.now = t1]
        s1 == [s0 EXCEPT !.db.data_records[record_id].data = JsonDumps(JsonPayload(v.data @@ current_data)),
                         !.db.data_records[record_id].updated_at = t1]
        a == add_to_blockchain(s1, "data_update",
                               [record_id |-> record_id, model_name |-> model_name,
                                previous_data |-> current_data, new_data |-> v.data,
                                updated_at |-> t1], t2, fail = 2)
    IN  IF record_id \notin DOMAIN s.db.data_records THEN [s |-> s, ret |-> FALSE]
        ELSE IF ~v.ok THEN [s |-> s, ret |-> FALSE]
        ELSE IF fail = 1 THEN [s |-> s0, ret |-> FALSE]
        ELSE IF ~a.ok THEN [s |-> a.s, ret |-> FALSE]
        ELSE IF fail = 3 THEN [s |-> a.s, ret |-> FALSE]
        ELSE [s |-> Commit(a.s), ret |-> TRUE]

\* mutant of update_data: the transaction carries the new payload as the previous one
update_data_StalePrev(s, record_id, data, t1, t2, fail) ==
    LET row == s.db.data_records[record_id]
        model_name == row.model_name
        v == IF model_name \in DOMAIN s.data_models
             THEN validate_data(data, s.data_models[model_name].fields)
             ELSE [ok |-> TRUE, data |-> data]
        s0 == [s EXCEPT !.now = t1]
        s1 == [s0 EXCEPT !.db.data_records[record_id].data = JsonDumps(JsonPayload(v.data)),
                         !.db.data_records[record_id].updated_at = t1]
        a == add_to_blockchain(s1, "data_update",
                               [record_id |-> record_id, model_name |-> model_name,
                                previous_data |-> v.data, new_data |-> v.data,
                                updated_at |-> t1], t2, fail = 2)
    IN  IF record_id \notin DOMAIN s.db.data_records THEN [s |-> s, ret |-> FALSE]
        ELSE IF ~v.ok THEN [s |-> s, ret |-> FALSE]
        ELSE IF fail = 1 THEN [s |-> s0, ret |-> FALSE]
        ELSE IF ~a.ok THEN [s |-> a.s, ret |-> FALSE]
        ELSE IF fail = 3 THEN [s |-> a.s, ret |-> FALSE]
        ELSE [s |-> Commit(a.s), ret |-> TRUE]

\* HyperledgerIntegratedDB.update_data
update_data(s, record_id, data, t1, t2, fail) ==
    LET row == s.db.data_records[record_id]
        current_data == JsonLoads(row.data)
        model_name == row.model_name
        v == IF model_name \in DOMAIN s.data_models
             THEN validate_data(data, s.data_models[model_name].fields)
             ELSE [ok |-> TRUE, data |-> data]
        s0 == [s EXCEPT !.now = t1]
        s1 == [s0 EXCEPT !.db.data_records[record_id].data = JsonDumps(JsonPayload(v.data)),
                         !.db.data_records[record_id].updated_at = t1]
        a == add_to_blockchain(s1, "data_update",
                               [record_id |-> record_id, model_name |-> model_name,
                                previous_data |-> current_data, new_data |-> v.data,
                                updated_at |-> t1], t2, fail = 2)
    IN  IF record_id \notin DOMAIN s.db.data_records THEN [s |-> s, ret |-> FALSE]
        ELSE IF ~v.ok THEN [s |-> s, ret |-> FALSE]
        ELSE IF fail = 1 THEN [s |-> s0, ret |-> FALSE]
        ELSE IF ~a.ok THEN [s |-> a.s, ret |-> FALSE]
        ELSE IF fail = 3 THEN [s |-> a.s, ret |-> FALSE]
        ELSE [s |-> Commit(a.s), ret |-> TRUE]

\* DataModel.from_dict: DataField(**field_data) for every field dict
from_dict(data) ==
    [name |-> data.name,
     fields |-> [i \in DOMAIN data.fields |->
                    [name |-> data.fields[i].name, type |-> data.fields[i].type,
                     required |-> data.fields[i].required,
                     default |-> data.fields[i].default,
                     description |-> data.fields[i].description]],
     description |-> data.description, created_at |-> data.created_at,
     version |-> data.version]

\* lines 148-160: the blocks of blockchain_blocks from index i on, in the
\* order of block_index, each with the hash of its row
RECURSIVE LoadBlocks(_, _)
LoadBlocks(rows, S) ==
    IF S = {} THEN <<>>
    ELSE LET i == CHOOSE x \in S : \A y \in S : x <= y
             block == Block(i, JsonLoads(rows[i].transactions_data), rows[i].timestamp,
                            rows[i].previous_hash, rows[i].nonce)
         IN  <<[block EXCEPT !.hash = rows[i].hash]>> \o LoadBlocks(rows, S \ {i})

\* mutants of load_existing_data: the loaded blocks replace the chain; the
\* loaded blocks are numbered from the length of the chain on
load_existing_data_NoGenesis(s, t) ==
    [s EXCEPT !.chain = LoadBlocks(s.disk.blockchain_blocks, DOMAIN s.disk.blockchain_blocks),
              !.pending = <<>>,
              !.data_models =
                  [n \in DOMAIN s.disk.data_models |->
                      from_dict(JsonLoads(s.disk.data_models[n].schema_data))],
              !.db = s.disk,
              !.now = t]

load_existing_data_Renumbered(s, t) ==
    LET loaded == LoadBlocks(s.disk.blockchain_blocks, DOMAIN s.disk.blockchain_blocks)
    IN  [s EXCEPT !.chain = <<create_genesis_block(t)>>
                                \o [i \in DOMAIN loaded |->
                                        [loaded[i] EXCEPT !.index = @ + 1]],
                  !.pending = <<>>,
                  !.data_models =
                      [n \in DOMAIN s.disk.data_models |->
                          from_dict(JsonLoads(s.disk.data_models[n].schema_data))],
                  !.db = s.disk,
                  !.now = t]

\* disconnect and then HyperledgerIntegratedDB.__init__ on the same file: a
\* new Blockchain, the tables as they were committed, and _load_existing_data
load_existing_data(s, t) ==
    [s EXCEPT !.chain = <<create_genesis_block(t)>>
                            \o LoadBlocks(s.disk.blockchain_blocks,
                                          DOMAIN s.disk.blockchain_blocks),
              !.pending = <<>>,
              !.data_models =
                  [n \in DOMAIN s.disk.data_models |->
                      from_dict(JsonLoads(s.disk.data_models[n].schema_data))],
              !.db = s.disk,
              !.now = t]

\* bool(x) of an optional id
Truthy(o) == o # None

\* mutant of BackfillOne: the UPDATE of data_records has no WHERE clause
BackfillOne_AllRows(tables, transaction, index) ==
    [tables EXCEPT !.data_records =
        [r \in DOMAIN @ |-> [@[r] EXCEPT !.blockchain_block_index = Some(index)]]]

\* lines 472-486 for one transaction of the sealed block: the two UPDATEs
\* run only under `if transaction.get('id')`
BackfillOne(tables, transaction, index) ==
    IF Truthy(Get(transaction, "id"))
    THEN LET t1 == IF transaction.id \in DOMAIN tables.blockchain_transactions
                   THEN [tables EXCEPT !.blockchain_transactions[transaction.id].block_index
                                           = Some(index)]
                   ELSE tables
             rid == Get(transaction.data, "record_id")
         IN  IF Truthy(rid) /\ rid[1] \in DOMAIN t1.data_records
             THEN [t1 EXCEPT !.data_records[rid[1]].blockchain_block_index = Some(index)]
             ELSE t1
    ELSE tables

\* the loop of lines 472-486
RECURSIVE Backfill(_, _, _)
Backfill(tables, transactions, index) ==
    IF transactions = <<>> THEN tables
    ELSE Backfill(BackfillOne(tables, Head(transactions), index), Tail(transactions), index)

\* mutant of SaveBlock: the summary is returned although the commit raised
SaveBlock_Unchecked(s, m, t2, fail) ==
    LET block == m.ret
        s1 == [s EXCEPT !.chain = m.chain, !.pending = m.pending, !.now = t2]
        row == [hash |-> block.hash, previous_hash |-> block.previous_hash,
                timestamp |-> block.timestamp, nonce |-> block.nonce,
                transactions_data |-> JsonDumps(JsonTxs(block.transactions))]
        s2 == [s1 EXCEPT !.db.blockchain_blocks = SetKey(@, block.index, row)]
        s3 == [s2 EXCEPT !.db = Backfill(s2.db, block.transactions, block.index)]
    IN  IF fail = 1 \/ block.index \in DOMAIN s.db.blockchain_blocks
        THEN [s |-> s1, ret |-> None]
        ELSE [s |-> IF fail = 2 THEN s3 ELSE Commit(s3),
              ret |-> Some([index |-> block.index, hash |-> block.hash,
                            timestamp |-> block.timestamp,
                            transaction_count |-> Len(block.transactions)])]

\* lines 455-497 of mine_block, after the seal m of the ledger: the block's
\* row, the back-fill, the commit and the summary returned
SaveBlock(s, m, t2, fail) ==
    LET block == m.ret
        s1 == [s EXCEPT !.chain = m.chain, !.pending = m.pending, !.now = t2]
        row == [hash |-> block.hash, previous_hash |-> block.previous_hash,
                timestamp |-> block.timestamp, nonce |-> block.nonce,
                transactions_data |-> JsonDumps(JsonTxs(block.transactions))]
        s2 == [s1 EXCEPT !.db.blockchain_blocks = SetKey(@, block.index, row)]
        s3 == [s2 EXCEPT !.db = Backfill(s2.db, block.transactions, block.index)]
    IN  IF fail = 1 \/ block.index \in DOMAIN s.db.blockchain_blocks
        THEN [s |-> s1, ret |-> None]
        ELSE IF fail = 2 THEN [s |-> s3, ret |-> None]
        ELSE [s |-> Commit(s3),
              ret |-> Some([index |-> block.index, hash |-> block.hash,
                            timestamp |-> block.timestamp,
                            transaction_count |-> Len(block.transactions)])]

\* mutant of db_mine_block: no test of the pending list before the seal
db_mine_block_NoGuard(s, t1, t2, fail) ==
    SaveBlock(s, mine_pending_transactions(s.chain, s.pending, s.difficulty, "system", t1, t2),
              t2, fail)

\* HyperledgerIntegratedDB.mine_block; ret is the summary dict or None
db_mine_block(s, t1, t2, fail) ==
    IF s.pending = <<>> THEN [s |-> s, ret |-> None]
    ELSE SaveBlock(s, mine_pending_transactions(s.chain, s.pending, s.difficulty, "system",
                                                t1, t2),
                   t2, fail)

(* ------------------------------- state ---------------------------------- *)
VARIABLES
    chain,                  \* Blockchain.chain
    pending_transactions,   \* Blockchain.pending_transactions
    difficulty,             \* Blockchain.difficulty
    data_models,            \* HyperledgerIntegratedDB.data_models
    db,                     \* the tables as the open connection sees them
    disk,                   \* the tables as last committed
    nextId,                 \* the next value uuid4() gives
    now,                    \* the last reading of time.time()
    last,                   \* the last call: its name, result and the sizes before it
    sealing                 \* where a call of mine_pending_transactions stands

vars == <<chain, pending_transactions, difficulty, data_models, db, disk, nextId, now, last,
          sealing>>

store == <<data_models, db, disk, nextId>>

\* the four tables of setup_database, each a function from its primary key
EmptyTables ==
    [data_models |-> <<>>, data_records |-> <<>>,
     blockchain_transactions |-> <<>>, blockchain_blocks |-> <<>>]

\* the record of a call: its name, arguments and result (each a record, so
\* that any two calls can be compared), the lengths of the
\* chain and of the pending list before it; adds counts the successful
\* add_data calls up to it with no other call between them, base the
\* pending transactions before the first of them
Call(op, arg, ret, adds, base) ==
    [op |-> op, arg |-> arg, ret |-> ret, chain0 |-> Len(chain),
     pend0 |-> Len(pending_transactions), adds |-> adds, base |-> base]

\* no call of mine_pending_transactions is under way, and none was ever
\* interleaved with another call
Idle == [pc |-> "idle", block |-> None, miner |-> "", raced |-> FALSE]

\* HyperledgerIntegratedDB.__init__ on a new database file: Blockchain.__init__,
\* setup_database, and _load_existing_data that finds nothing
Init ==
    /\ difficulty \in 0..MaxDifficulty
    /\ now \in Ticks(0)
    /\ chain = <<create_genesis_block(now)>>
    /\ pending_transactions = <<>>
    /\ data_models = <<>>
    /\ db = EmptyTables
    /\ disk = EmptyTables
    /\ nextId = 1
    /\ last = [op |-> "init", arg |-> None, ret |-> None, chain0 |-> 0, pend0 |-> 0,
               adds |-> 0, base |-> 0]
    /\ sealing = Idle

(* ------------------- the Blockchain called directly --------------------- *)
Senders == {"alice", "bob"}
Recipients == {"alice"}
Amounts == {5}
\* the data argument: left out, an empty dict, a dict of the caller
Memos == {None, Some(EmptyDict), Some([memo |-> 1])}
Miners == {"miner", "alice"}

AddTransaction(sender, recipient, amount, data, t) ==
    LET r == add_transaction(chain, pending_transactions, sender, recipient, amount, data, t)
    IN  /\ Len(pending_transactions) < MaxPending
        /\ pending_transactions' = r.pending
        /\ now' = t
        /\ last' = Call("add_transaction",
                        [sender |-> sender, recipient |-> recipient, amount |-> amount,
                         data |-> data],
                        Some([index |-> r.ret]), 0, 0)
        /\ UNCHANGED <<chain, difficulty, store, sealing>>

MinePendingTransactions(miner, t1, t2) ==
    LET r == mine_pending_transactions(chain, pending_transactions, difficulty, miner, t1, t2)
    IN  /\ Len(chain) < MaxChain
        /\ chain' = r.chain
        /\ pending_transactions' = r.pending
        /\ now' = t2
        /\ last' = Call("mine_pending_transactions", [miner |-> miner], Some(r.ret), 0, 0)
        /\ UNCHANGED <<difficulty, store, sealing>>

LedgerNext ==
    \/ \E s \in Senders, r \in Recipients, a \in Amounts, d \in Memos, t \in Ticks(now) :
            AddTransaction(s, r, a, d, t)
    \/ \E m \in Miners, t1 \in Ticks(now) : \E t2 \in Ticks(t1) :
            MinePendingTransactions(m, t1, t2)

\* every behaviour of a Blockchain whose methods are called one at a time
LedgerSpec == Init /\ [][LedgerNext]_vars

(* ------------------ the HyperledgerIntegratedDB called ------------------ *)
Session ==
    [chain |-> chain, pending |-> pending_transactions, difficulty |-> difficulty,
     data_models |-> data_models, db |-> db, disk |-> disk, nextId |-> nextId,
     now |-> now]

Apply(s) ==
    /\ chain' = s.chain
    /\ pending_transactions' = s.pending
    /\ difficulty' = s.difficulty
    /\ data_models' = s.data_models
    /\ db' = s.db
    /\ disk' = s.disk
    /\ nextId' = s.nextId
    /\ now' = s.now
    /\ UNCHANGED sealing

\* payload values
PyInt(n) == [ty |-> "int", v |-> n]
PyStr(n) == [ty |-> "str", v |-> n]

\* the field lists create_data_model is called with: one required integer
\* field; the same with an optional text field that has a default; a field
\* dict without 'type'
FieldSpecs ==
    { << [name |-> "qty", type |-> "integer"] >>,
      << [name |-> "qty", type |-> "integer"],
         [name |-> "note", type |-> "text", required |-> FALSE, default |-> PyStr(0)] >>,
      << [name |-> "qty"] >> }

ModelNames == {"Item"}
\* "Ghost" is never created
QueryNames == {"Item", "Ghost"}

\* the payloads add_data and update_data are called with
Payloads ==
    { EmptyDict,
      [qty |-> PyInt(1)],
      [qty |-> PyStr(1)],
      [qty |-> PyInt(2), note |-> PyStr(1)] }

\* an id no record has
UnknownId == 0

\* the calls of add_data: every payload for the model that may exist, one
\* for the model that never does
AddCalls ==
    {[model_name |-> "Item", data |-> p] : p \in Payloads}
        \cup {[model_name |-> n, data |-> [qty |-> PyInt(1)]] : n \in QueryNames}

\* the calls of update_data: every payload for every record, one for an id
\* no record has
UpdateCalls ==
    {[record_id |-> id, data |-> p] : id \in DOMAIN db.data_records, p \in Payloads}
        \cup {[record_id |-> UnknownId, data |-> [qty |-> PyInt(1)]]}

\* the successful add_data calls that directly precede the next call
AddsBefore == IF last.op = "add_data" /\ last.ret # None THEN last.adds ELSE 0
BaseBefore == IF last.op = "add_data" /\ last.ret # None THEN last.base
              ELSE Len(pending_transactions)

CreateDataModel(name, fields, t1, t2, fail) ==
    LET r == create_data_model(Session, name, fields, "", t1, t2, fail)
    IN  /\ nextId <= MaxIds
        /\ Apply(r.s)
        /\ last' = Call("create_data_model",
                        [name |-> name, fields |-> fields, fail |-> fail],
                        Some([ok |-> r.ret]), 0, 0)

AddData(model_name, data, t1, t2, fail) ==
    LET r == add_data(Session, model_name, data, t1, t2, fail)
    IN  /\ nextId + 1 <= MaxIds
        /\ Apply(r.s)
        /\ last' = IF r.ret # None
                   THEN Call("add_data",
                             [model_name |-> model_name, data |-> data, fail |-> fail],
                             Some([id |-> r.ret[1]]), AddsBefore + 1, BaseBefore)
                   ELSE Call("add_data",
                             [model_name |-> model_name, data |-> data, fail |-> fail],
                             r.ret, 0, 0)

\* the data_update transactions logged so far
UpdatesLogged ==
    Cardinality({id \in DOMAIN db.blockchain_transactions :
                    db.blockchain_transactions[id].transaction_type = "data_update"})

UpdateData(record_id, data, t1, t2, fail) ==
    LET r == update_data(Session, record_id, data, t1, t2, fail)
    IN  /\ nextId <= MaxIds
        /\ UpdatesLogged < MaxUpdates
        /\ Apply(r.s)
        /\ last' = Call("update_data",
                        [record_id |-> record_id, data |-> data, fail |-> fail],
                        Some([ok |-> r.ret]), 0, 0)

MineBlock(t1, t2, fail) ==
    LET r == db_mine_block(Session, t1, t2, fail)
    IN  /\ Len(chain) < MaxChain
        /\ Apply(r.s)
        /\ last' = Call("mine_block", [fail |-> fail], r.ret, AddsBefore, BaseBefore)

\* no cursor.execute and no commit raises but for a primary key already there
NoFault == 0

Next ==
    \/ \E n \in ModelNames, f \in FieldSpecs, t1 \in Ticks(now) :
            \E t2 \in Ticks(t1) : CreateDataModel(n, f, t1, t2, NoFault)
    \/ \E c \in AddCalls, t1 \in Ticks(now) :
            \E t2 \in Ticks(t1) : AddData(c.model_name, c.data, t1, t2, NoFault)
    \/ \E c \in UpdateCalls, t1 \in Ticks(now) :
            \E t2 \in Ticks(t1) : UpdateData(c.record_id, c.data, t1, t2, NoFault)
    \/ \E t1 \in Ticks(now) : \E t2 \in Ticks(t1) : MineBlock(t1, t2, NoFault)

\* every behaviour of one session of the store whose methods are called one
\* at a time and whose database writes succeed
Spec == Init /\ [][Next]_vars

(* ----------------------- a chain that is tampered with ------------------ *)
\* what a tamperer writes over the transactions or the hash of a block
Forged(block) ==
    { [block EXCEPT !.transactions = Append(@, RewardTx("bob", 0))],
      [block EXCEPT !.hash = Zeros(HashLen)],
      [block EXCEPT !.hash = calculate_hash([block EXCEPT !.nonce = @ + 1])] }

\* one block of the chain is overwritten, once, outside the methods
Tamper(i, forged) ==
    /\ last.op # "tamper"
    /\ chain' = [chain EXCEPT ![i] = forged]
    /\ last' = Call("tamper", [block |-> i], None, 0, 0)
    /\ UNCHANGED <<pending_transactions, difficulty, store, now, sealing>>

TamperNext ==
    \/ last.op # "tamper" /\ LedgerNext
    \/ \E i \in 1..Len(chain) : \E b \in Forged(chain[i]) : Tamper(i, b)

\* the chains is_chain_valid is asked about: built by the methods, then one
\* block overwritten
TamperSpec == Init /\ [][TamperNext]_vars

(* ------------------------------- claims --------------------------------- *)
SealDone == last.op = "mine_pending_transactions"

\* the hash of block b recomputed from its stored fields equals its stored hash
HashConsistent(b) == b.hash = calculate_hash(b)

\* C3: in every state reached by add_transaction and mine_pending_transactions
\* calls, every block but the first has the hash of the block before it as
\* its previous_hash.
C3_ChainLinked ==
    \A i \in 2..Len(chain) : chain[i].previous_hash = chain[i - 1].hash

\* C3 witness: two blocks were sealed on top of the genesis block.
C3_Witness == SealDone /\ Len(chain) >= 3

\* C4: in every state reached by add_transaction and mine_pending_transactions
\* calls, the stored hash of every block, the genesis block included, is the
\* digest of its current index, transactions, timestamp, previous_hash and
\* nonce.
C4_HashesConsistent ==
    \A i \in 1..Len(chain) : HashConsistent(chain[i])

\* C4 witness: transactions were staged after a block was sealed, and the
\* sealed block holds transactions.
C4_Witness ==
    /\ last.op = "add_transaction"
    /\ Len(chain) >= 2
    /\ Len(pending_transactions) >= 2
    /\ chain[2].transactions # <<>>

\* the number of '0' characters a hash starts with
RECURSIVE LeadingZeros(_)
LeadingZeros(h) ==
    IF h = <<>> \/ Head(h) # 0 THEN 0 ELSE 1 + LeadingZeros(Tail(h))

\* C8 as stated: the hash of a block sealed at difficulty d has exactly d
\* leading '0' characters and is the hash recomputed from its fields.
C8_ExactlyDZeros ==
    SealDone =>
        /\ LeadingZeros(last.ret[1].hash) = difficulty
        /\ HashConsistent(last.ret[1])

\* C8 amended: the first d characters of the hash of a block sealed at
\* difficulty d are '0' (more may follow), and the stored hash is the hash
\* recomputed from the block's final nonce and fields.
C8_AtLeastDZeros ==
    SealDone =>
        /\ Len(last.ret[1].hash) >= difficulty
        /\ \A i \in 1..difficulty : last.ret[1].hash[i] = 0
        /\ HashConsistent(last.ret[1])
        /\ Last(chain) = last.ret[1]

\* C8 witness: a seal at a difficulty above 0 that had to raise the nonce.
C8_Witness == SealDone /\ difficulty >= 1 /\ last.ret[1].nonce > 0

\* C9: a mine_pending_transactions call appends exactly one block; its index
\* is the length of the chain before the call, its previous_hash the hash of
\* the block that was last, its transactions the pending list of before the
\* call in the same order; the blocks of before are unchanged.
C9_SealAppendsOneBlock ==
    [][ last'.op = "mine_pending_transactions" =>
            /\ Len(chain') = Len(chain) + 1
            /\ SubSeq(chain', 1, Len(chain)) = chain
            /\ Last(chain').index = Len(chain)
            /\ Last(chain').previous_hash = Last(chain).hash
            /\ Last(chain').transactions = pending_transactions ]_vars

\* C9 witness: the third block was sealed from two different pending transactions.
C9_Witness ==
    /\ SealDone
    /\ Len(chain) = 3
    /\ last.pend0 = 2
    /\ Last(chain).transactions[1] # Last(chain).transactions[2]

\* C10: right after a mine_pending_transactions(miner) call the pending list
\* is one transaction from 'system' to the miner of amount mining_reward with
\* empty data.
C10_PendingIsReward ==
    SealDone =>
        /\ Len(pending_transactions) = 1
        /\ pending_transactions[1].sender = "system"
        /\ pending_transactions[1].recipient = last.arg.miner
        /\ pending_transactions[1].amount = mining_reward
        /\ pending_transactions[1].data = EmptyDict

\* C10 witness: the pending list held two transactions, one with data, before
\* the seal.
C10_Witness ==
    /\ SealDone
    /\ last.pend0 = 2
    /\ last.arg.miner = "alice"
    /\ \E i \in 1..2 : last.ret[1].transactions[i].data # EmptyDict

\* C5 as stated: is_chain_valid is true exactly when every block, the genesis
\* block included, has the hash recomputed from its fields and every block
\* but the first has the hash of the block before it as previous_hash.
C5_VerifyIffAllConsistent ==
    is_chain_valid(chain) <=>
        /\ \A i \in 1..Len(chain) : HashConsistent(chain[i])
        /\ \A i \in 2..Len(chain) : chain[i].previous_hash = chain[i - 1].hash

MineDone == last.op = "mine_block"

\* the transaction carries a transaction of the store that names a record
EmbedsRecordId(tx) ==
    /\ "data" \in DOMAIN tx.data
    /\ "record_id" \in DOMAIN tx.data.data

\* C1 as stated: after a mine_block call that sealed a block, for every
\* transaction of the block that embeds a record_id, the data_records row of
\* that id has the block's index as blockchain_block_index and the
\* blockchain_transactions row of the transaction has it as block_index.
C1_MineBackfillsBlockIndex ==
    (MineDone /\ last.ret # None) =>
        LET block == Last(chain)
        IN  \A i \in 1..Len(block.transactions) :
                LET tx == block.transactions[i]
                IN  EmbedsRecordId(tx) =>
                        /\ db.data_records[tx.data.data.record_id].blockchain_block_index
                               = Some(block.index)
                        /\ db.blockchain_transactions[tx.data.id].block_index
                               = Some(block.index)

\* C2 as stated: three successful add_data calls and then one mine_block call
\* give a block of exactly 3 transactions, a chain one block longer and a
\* pending list of exactly 1 transaction.
C2_BlockHoldsThree ==
    (MineDone /\ last.adds = 3) =>
        /\ Len(Last(chain).transactions) = 3
        /\ Len(chain) = last.chain0 + 1
        /\ Len(pending_transactions) = 1

\* C2 amended: three successful add_data calls and then one mine_block call
\* give a block that holds the transactions pending before the first
\* add_data and then 3 more, a chain one block longer and a pending list of
\* exactly 1 transaction, the reward.
C2_BlockHoldsPendingPlusThree ==
    (MineDone /\ last.adds = 3) =>
        /\ Len(Last(chain).transactions) = last.base + 3
        /\ \A i \in 1..3 :
               Last(chain).transactions[last.base + i].data.type = "data_creation"
        /\ Len(chain) = last.chain0 + 1
        /\ Len(pending_transactions) = 1
        /\ pending_transactions[1] = RewardTx("system", now)

\* C2 witness: a mine_block call right after three successful add_data calls.
C2_Witness == MineDone /\ last.adds = 3 /\ last.ret # None /\ last.base = 1

\* the add_data call with arguments a fails before it stages anything
AddMustFail(a) ==
    \/ a.model_name \notin DOMAIN data_models
    \/ ~validate_data(a.data, data_models[a.model_name].fields).ok

\* the update_data call with arguments a fails before it stages anything
UpdateMustFail(a) ==
    \/ a.record_id \notin DOMAIN db.data_records
    \/ LET model_name == db.data_records[a.record_id].model_name
       IN  /\ model_name \in DOMAIN data_models
           /\ ~validate_data(a.data, data_models[model_name].fields).ok

\* C6: add_data with an unknown model name or a payload that fails validation
\* returns None, update_data with an unknown id or a payload that fails
\* validation returns False, and the call leaves every table, the pending
\* list and the chain as they were.
C6_FailedMutationHasNoEffect ==
    [][ /\ (last'.op = "add_data" /\ AddMustFail(last'.arg)) =>
                /\ last'.ret = None
                /\ UNCHANGED <<db, disk, pending_transactions, chain>>
        /\ (last'.op = "update_data" /\ UpdateMustFail(last'.arg)) =>
                /\ last'.ret = Some([ok |-> FALSE])
                /\ UNCHANGED <<db, disk, pending_transactions, chain>> ]_vars

\* C6 witness: add_data was refused for a model that exists, in a session
\* that holds records and pending transactions.
C6_Witness ==
    /\ last.op = "add_data"
    /\ last.ret = None
    /\ last.arg.model_name \in DOMAIN data_models
    /\ db.data_records # <<>>
    /\ pending_transactions # <<>>

\* C7: mine_block called with an empty pending list returns None and leaves
\* the chain, the pending list and every table as they were; the chain grows
\* in a mine_block call only when the pending list was not empty.
C7_MineOnEmptyIsNoop ==
    [][ last'.op = "mine_block" =>
            /\ pending_transactions = <<>> =>
                   /\ last'.ret = None
                   /\ UNCHANGED <<chain, pending_transactions, db, disk, data_models>>
            /\ chain' # chain => pending_transactions # <<>> ]_vars

\* C7 witness: mine_block returned None on an empty pending list.
C7_Witness == MineDone /\ last.ret = None /\ last.pend0 = 0 /\ Len(chain) = 1

(* --------------------------- staging on the ledger ---------------------- *)
StageDone == last.op = "add_transaction"

\* C11: add_transaction appends exactly one transaction, the one built from
\* its arguments, to the end of the pending list, returns len(chain) + 1 and
\* leaves the chain, the difficulty and the transactions already pending
\* as they were
C11_StageAppendsOne ==
    [][last'.op = "add_transaction" =>
          /\ Len(pending_transactions') = Len(pending_transactions) + 1
          /\ SubSeq(pending_transactions', 1, Len(pending_transactions))
                 = pending_transactions
          /\ \E t \in Ticks(now) :
                 Last(pending_transactions')
                    = [sender |-> last'.arg.sender, recipient |-> last'.arg.recipient,
                       amount |-> last'.arg.amount,
                       data |-> IF last'.arg.data = None THEN EmptyDict
                                ELSE last'.arg.data[1],
                       timestamp |-> t]
          /\ last'.ret = Some([index |-> Len(chain) + 1])
          /\ chain' = chain
          /\ difficulty' = difficulty]_vars

\* C11 witness: a transaction staged behind one that was already pending
C11_Witness ==
    /\ StageDone
    /\ Len(pending_transactions) = 2
    /\ pending_transactions[1].sender = "system"
    /\ last.arg.data = Some([memo |-> 1])

\* C12 as stated: the block that seals a transaction has the index that
\* add_transaction returned for it
C12_ReturnedIndexIsBlockIndex ==
    [][(last.op = "add_transaction" /\ last'.op = "mine_pending_transactions") =>
          last'.ret[1].index = last.ret[1].index]_vars

(* --------------------------- _validate_data alone ----------------------- *)
PyBool(n) == [ty |-> "bool", v |-> n]
PyFloat(n) == [ty |-> "float", v |-> n]
PyDict(n) == [ty |-> "dict", v |-> n]
PyList(n) == [ty |-> "list", v |-> n]

\* one value of each Python type a payload can hold
Values == {PyStr(1), PyInt(1), PyBool(1), PyFloat(1), PyDict(1), PyList(1)}

\* the type tags of lines 392-404
FieldTypes == {"text", "integer", "real", "boolean", "datetime", "json"}

\* the models _validate_data is called with: one field "f" of every type,
\* required or not, without a default or with a default of any type
ValidateFields ==
    { << [name |-> "f", type |-> ty, required |-> r, default |-> d, description |-> ""] >> :
        ty \in FieldTypes, r \in BOOLEAN, d \in {None} \cup {Some(v) : v \in Values} }

\* the payloads it is called with: without the field, or with a value of any type
ValidatePayloads == {EmptyDict} \cup {[f |-> v] : v \in Values}

\* a session in which nothing was stored, about to call _validate_data
ValidateInit ==
    /\ difficulty = 0
    /\ now = 0
    /\ chain = <<create_genesis_block(now)>>
    /\ pending_transactions = <<>>
    /\ data_models = <<>>
    /\ db = EmptyTables
    /\ disk = EmptyTables
    /\ nextId = 1
    /\ sealing = Idle
    /\ \E fs \in ValidateFields, p \in ValidatePayloads :
           last = [op |-> "input", arg |-> [data |-> p, fields |-> fs], ret |-> None,
                   chain0 |-> 0, pend0 |-> 0, adds |-> 0, base |-> 0]

\* the call of _validate_data(data, model): whether it returns and the payload after it
Validate ==
    /\ last.op = "input"
    /\ last' = [last EXCEPT !.op = "validate_data",
                             !.ret = Some(validate_data(last.arg.data, last.arg.fields))]
    /\ UNCHANGED <<chain, pending_transactions, difficulty, store, now, sealing>>

ValidateNext == Validate

ValidateSpec == ValidateInit /\ [][ValidateNext]_vars

ValidateDone == last.op = "validate_data"

\* C14 as stated: a payload that omits a required field that has a default
\* (of the field's type) passes validation and then holds the default
C14_DefaultBeforeRequired ==
    LET field == last.arg.fields[1]
    IN  (/\ ValidateDone
         /\ field.required
         /\ field.default # None
         /\ TypeOk(field.type, field.default[1])
         /\ "f" \notin DOMAIN last.arg.data)
            => /\ last.ret[1].ok
               /\ last.ret[1].data = [f |-> field.default[1]]

\* the type rules as the claim gives them: a boolean is not a whole number
StrictTypeOk(type, value) ==
    CASE type = "text" -> value.ty = "str"
      [] type = "integer" -> value.ty = "int"
      [] type = "real" -> value.ty \in {"int", "float"}
      [] type = "boolean" -> value.ty = "bool"
      [] type = "datetime" -> value.ty \in {"int", "float", "str"}
      [] type = "json" -> value.ty \in {"dict", "list"}

\* C15 as stated: with the field present in the payload, validation passes
\* exactly when the value matches the field's type tag, a boolean not
\* counting as a whole number
C15_StrictTypes ==
    (ValidateDone /\ "f" \in DOMAIN last.arg.data)
        => (last.ret[1].ok <=> StrictTypeOk(last.arg.fields[1].type, last.arg.data.f))

(* ------------------------------ update_data ----------------------------- *)
UpdateDone == last.op = "update_data" /\ last.ret = Some([ok |-> TRUE])

\* the payload stored for the record of the last update_data call
StoredPayload == JsonLoads(db.data_records[last.arg.record_id].data)

\* the data_update transaction that call staged
UpdateTx == Last(pending_transactions).data

\* the fields of the model of that record
UpdatedFields == data_models[db.data_records[last.arg.record_id].model_name].fields

AddDone == last.op = "add_data" /\ last.ret # None

\* the log entries whose data_id is the record id
LogEntriesOf(tables, record_id) ==
    {id \in DOMAIN tables.blockchain_transactions :
        tables.blockchain_transactions[id].data_id = Some(record_id)}

\* C18: a successful add_data inserts exactly one row, under an id no row
\* had; appends to the pending list exactly one transaction, of type
\* data_creation, that embeds the record id, the model name, the payload
\* stored and the row's created_at; and sets the row's
\* blockchain_transaction_id to the id of that transaction, which is the id
\* of exactly one new log entry, the only one whose data_id is the record id
C18_AddStagesOneCreation ==
    [][(last'.op = "add_data" /\ last'.ret # None) =>
          LET id == last'.ret[1].id
              row == db'.data_records[id]
              tx == Last(pending_transactions').data
          IN  /\ id \notin DOMAIN db.data_records
              /\ DOMAIN db'.data_records = DOMAIN db.data_records \cup {id}
              /\ \A r \in DOMAIN db.data_records : db'.data_records[r] = db.data_records[r]
              /\ Len(pending_transactions') = Len(pending_transactions) + 1
              /\ SubSeq(pending_transactions', 1, Len(pending_transactions))
                     = pending_transactions
              /\ tx.type = "data_creation"
              /\ tx.data = [record_id |-> id, model_name |-> last'.arg.model_name,
                            data |-> JsonLoads(row.data), created_at |-> row.created_at]
              /\ row.blockchain_transaction_id = Some(tx.id)
              /\ tx.id \notin DOMAIN db.blockchain_transactions
              /\ DOMAIN db'.blockchain_transactions
                     = DOMAIN db.blockchain_transactions \cup {tx.id}
              /\ LogEntriesOf(db', id) = {tx.id}
              /\ disk' = db']_vars

\* C18 witness: a second record added to a store that holds one
C18_Witness ==
    /\ AddDone
    /\ Cardinality(DOMAIN db.data_records) = 2
    /\ "note" \in DOMAIN JsonLoads(db.data_records[last.ret[1].id].data)

\* C19: a successful update_data appends to the pending list exactly one
\* transaction, of type data_update, whose previous_data is the payload
\* stored for the record before the call and whose new_data is the payload
\* stored for it after the call
C19_UpdateStagesOneUpdate ==
    [][(last'.op = "update_data" /\ last'.ret = Some([ok |-> TRUE])) =>
          LET id == last'.arg.record_id
              tx == Last(pending_transactions').data
          IN  /\ Len(pending_transactions') = Len(pending_transactions) + 1
              /\ SubSeq(pending_transactions', 1, Len(pending_transactions))
                     = pending_transactions
              /\ tx.type = "data_update"
              /\ tx.data.record_id = id
              /\ tx.data.previous_data = JsonLoads(db.data_records[id].data)
              /\ tx.data.new_data = JsonLoads(db'.data_records[id].data)
              /\ DOMAIN db'.blockchain_transactions
                     = DOMAIN db.blockchain_transactions \cup {tx.id}
              /\ tx.id \notin DOMAIN db.blockchain_transactions]_vars

\* C19 witness: an update that changed the stored payload
C19_Witness ==
    /\ UpdateDone
    /\ UpdateTx.type = "data_update"
    /\ UpdateTx.data.previous_data # UpdateTx.data.new_data
    /\ UpdateTx.data.new_data = StoredPayload

(* ------------------------- blockchain_block_index ----------------------- *)
\* block i of the chain holds a transaction that embeds the record id
SealedIn(i, record_id) ==
    \E j \in 1..Len(chain[i].transactions) :
        /\ EmbedsRecordId(chain[i].transactions[j])
        /\ chain[i].transactions[j].data.data.record_id = record_id

\* C20: the blockchain_block_index of a record is NULL or the index of a
\* block of the chain that holds a transaction embedding the record's id;
\* it is NULL as long as no such block was sealed
C20_BlockIndexNullUntilSealed ==
    \A r \in DOMAIN db.data_records :
        LET index == db.data_records[r].blockchain_block_index
        IN  index # None =>
                \E i \in 1..Len(chain) : chain[i].index = index[1] /\ SealedIn(i, r)

\* C20 witness: a record added after a mine_block call: one record is sealed
\* in a block and the transaction of the other is still pending
C20_Witness ==
    /\ AddDone
    /\ \E r \in DOMAIN db.data_records : SealedIn(Len(chain), r)
    /\ \E r \in DOMAIN db.data_records :
           /\ \A i \in 1..Len(chain) : ~SealedIn(i, r)
           /\ db.data_records[r].blockchain_block_index = None

(* ------------------------------ data models ----------------------------- *)
CreateDone == last.op = "create_data_model"

\* the registry in memory and the committed data_models table hold the same
\* definition under the same names
RegistryAgrees ==
    /\ DOMAIN data_models = DOMAIN disk.data_models
    /\ \A n \in DOMAIN data_models :
           JsonLoads(disk.data_models[n].schema_data) = to_dict(data_models[n])

\* C17: the registry and the data_models table agree in every state; no
\* call changes or removes the definition of a registered model, in memory
\* or in the table; create_data_model with a registered name returns False
C17_ModelsImmutable ==
    /\ []RegistryAgrees
    /\ [][/\ \A n \in DOMAIN data_models :
                 /\ n \in DOMAIN data_models'
                 /\ data_models'[n] = data_models[n]
                 /\ n \in DOMAIN disk'.data_models
                 /\ disk'.data_models[n] = disk.data_models[n]
           /\ (last'.op = "create_data_model" /\ last'.arg.name \in DOMAIN data_models)
                 => last'.ret = Some([ok |-> FALSE])]_vars

\* C17 witness: create_data_model called with the name of a registered
\* model and other fields than it has
C17_Witness ==
    /\ CreateDone
    /\ last.ret = Some([ok |-> FALSE])
    /\ last.arg.name \in DOMAIN data_models
    /\ Len(last.arg.fields) = 2
    /\ Len(data_models[last.arg.name].fields) = 1

(* ------------------- a session whose database writes may fail ----------- *)
\* the cursor.execute or commit call of create_data_model that raises: the
\* INSERT into data_models, the INSERT into blockchain_transactions, the commit
CreateFaults == {1, 2, 3}

FaultNext ==
    \/ /\ nextId <= MaxFaultIds
       /\ \E n \in ModelNames, f \in FieldSpecs, t1 \in Ticks(now), fail \in CreateFaults :
              \E t2 \in Ticks(t1) : CreateDataModel(n, f, t1, t2, fail)
    \/ /\ nextId <= MaxFaultIds
       /\ Next

\* every behaviour of one session of the store in which a write of
\* create_data_model may raise
FaultSpec == Init /\ [][FaultNext]_vars

\* C16 as stated: a create_data_model that returns True has inserted the
\* model's row, registered the model and staged exactly one model_creation
\* transaction carrying the model's definition; one that returns False
\* leaves the pending list, the registry and the tables as they were
C16_CreateAllOrNothing ==
    [][last'.op = "create_data_model" =>
          IF last'.ret = Some([ok |-> TRUE])
          THEN LET name == last'.arg.name
                   tx == Last(pending_transactions').data
               IN  /\ name \in DOMAIN data_models'
                   /\ name \in DOMAIN disk'.data_models
                   /\ JsonLoads(disk'.data_models[name].schema_data)
                          = to_dict(data_models'[name])
                   /\ Len(pending_transactions') = Len(pending_transactions) + 1
                   /\ SubSeq(pending_transactions', 1, Len(pending_transactions))
                          = pending_transactions
                   /\ tx.type = "model_creation"
                   /\ tx.data.model_name = name
                   /\ tx.data.schema = to_dict(data_models'[name])
          ELSE /\ pending_transactions' = pending_transactions
               /\ data_models' = data_models
               /\ db' = db
               /\ disk' = disk]_vars

(* ------------------------------- genesis -------------------------------- *)
\* C23: the genesis block has index 0, previous_hash "0", no transaction
\* and nonce 0 whatever the difficulty, its hash being the digest of these
\* fields; the constructor leaves a chain of one block and no pending
\* transaction
C23_GenesisUnmined ==
    /\ chain[1].index = 0
    /\ chain[1].previous_hash = <<0>>
    /\ chain[1].transactions = <<>>
    /\ chain[1].nonce = 0
    /\ chain[1].hash = calculate_hash(chain[1])
    /\ last.op = "init" => (Len(chain) = 1 /\ pending_transactions = <<>>)

\* C23 witness: a new ledger of difficulty 1 whose genesis hash has no leading zero
C23_Witness ==
    /\ last.op = "init"
    /\ difficulty = 1
    /\ chain[1].hash[1] # 0

(* ------------------------------- balances ------------------------------- *)
\* the addresses get_balance is called with
Addresses == {"alice", "bob"}

GetBalance(address) ==
    /\ last.op # "get_balance"
    /\ last' = Call("get_balance", [address |-> address],
                    Some([balance |-> get_balance(chain, address)]), 0, 0)
    /\ UNCHANGED <<chain, pending_transactions, difficulty, store, now, sealing>>

BalanceNext ==
    \/ LedgerNext
    \/ \E a \in Addresses : GetBalance(a)

\* every behaviour of a Blockchain whose balances are read between the calls
BalanceSpec == Init /\ [][BalanceNext]_vars

\* the positions <<block, transaction>> of the chain
Positions(ch) ==
    UNION {{<<i, j>> : j \in 1..Len(ch[i].transactions)} : i \in 1..Len(ch)}

RECURSIVE SumAmounts(_, _)
SumAmounts(ch, S) ==
    IF S = {} THEN 0
    ELSE LET p == CHOOSE q \in S : TRUE
         IN  ch[p[1]].transactions[p[2]].amount + SumAmounts(ch, S \ {p})

Credits(ch, address) ==
    SumAmounts(ch, {p \in Positions(ch) : ch[p[1]].transactions[p[2]].recipient = address})

Debits(ch, address) ==
    SumAmounts(ch, {p \in Positions(ch) : ch[p[1]].transactions[p[2]].sender = address})

\* C25: get_balance(address) is the sum of the amounts of the transactions
\* in the blocks of the chain that name the address as recipient minus the
\* sum of those that name it as sender; the pending transactions count for
\* nothing, and the call changes neither the chain, the pending list nor
\* the difficulty
C25_BalanceIsCreditsMinusDebits ==
    [][last'.op = "get_balance" =>
          /\ last'.ret[1].balance
                 = Credits(chain, last'.arg.address) - Debits(chain, last'.arg.address)
          /\ chain' = chain
          /\ pending_transactions' = pending_transactions
          /\ difficulty' = difficulty]_vars

\* C25 witness: the balance of an address that a sealed transaction names
\* as sender and as recipient, that another credits, and that a pending
\* transaction credits too
C25_Witness ==
    /\ last.op = "get_balance"
    /\ last.arg.address = "alice"
    /\ \E p \in Positions(chain) :
           /\ chain[p[1]].transactions[p[2]].sender = "alice"
           /\ chain[p[1]].transactions[p[2]].recipient = "alice"
    /\ \E i \in 1..Len(pending_transactions) : pending_transactions[i].recipient = "alice"
    /\ last.ret[1].balance = 5

(* --------------------------- proof of work ------------------------------ *)
\* the hash the block would have with nonce m
HashWithNonce(b, m) == calculate_hash([b EXCEPT !.nonce = m])

\* C28: the block mine_pending_transactions returns carries the least
\* nonce, counted from 0, for which the hash of the block starts with
\* `difficulty` zeros; with difficulty 0 that nonce is 0
C28_LeastNonce ==
    SealDone =>
        LET b == last.ret[1]
        IN  /\ b.nonce >= 0
            /\ b.hash = HashWithNonce(b, b.nonce)
            /\ Prefix(b.hash, difficulty) = Zeros(difficulty)
            /\ \A m \in 0..(b.nonce - 1) :
                   Prefix(HashWithNonce(b, m), difficulty) # Zeros(difficulty)
            /\ difficulty = 0 => b.nonce = 0

\* C28 witness: a search that had to pass over more than one nonce
C28_Witness == SealDone /\ difficulty = 1 /\ last.ret[1].nonce >= 2

(* ----------------------- where the transactions are ---------------------- *)
\* the transactions of the blocks of ch, in chain order
RECURSIVE Flatten(_)
Flatten(ch) == IF ch = <<>> THEN <<>> ELSE ch[1].transactions \o Flatten(Tail(ch))

IsStaged(tx) == tx.sender # "system"

\* the transactions staged by add_transaction, in the order they are held:
\* first those of the blocks, then those still pending
Staged(ch, pend) == SelectSeq(Flatten(ch) \o pend, IsStaged)

\* C29: a transaction staged by add_transaction is held once, in the
\* pending list or in one block: add_transaction adds one transaction to
\* those held and puts it in the pending list, mine_pending_transactions
\* neither drops nor repeats any, moves every pending transaction into the
\* new block and leaves none of them pending
C29_StagedHeldOnce ==
    [][/\ last'.op = "add_transaction" =>
            /\ Len(Staged(chain', pending_transactions'))
                   = Len(Staged(chain, pending_transactions)) + 1
            /\ SubSeq(Staged(chain', pending_transactions'), 1,
                      Len(Staged(chain, pending_transactions)))
                   = Staged(chain, pending_transactions)
            /\ Last(pending_transactions')
                   = Last(Staged(chain', pending_transactions'))
            /\ Flatten(chain') = Flatten(chain)
       /\ last'.op = "mine_pending_transactions" =>
            /\ Staged(chain', pending_transactions')
                   = Staged(chain, pending_transactions)
            /\ Flatten(chain') = Flatten(chain) \o pending_transactions
            /\ SelectSeq(pending_transactions', IsStaged) = <<>>]_vars

\* C29 witness: a second block sealed, each block holding a staged transaction
C29_Witness ==
    /\ SealDone
    /\ Len(chain) = 3
    /\ \E j \in 1..Len(chain[2].transactions) : IsStaged(chain[2].transactions[j])
    /\ \E j \in 1..Len(chain[3].transactions) : IsStaged(chain[3].transactions[j])
    /\ Len(chain[3].transactions) = 2

(* ------------------------- mining after mining -------------------------- *)
\* C30: once a block was sealed the pending list is never empty, so that
\* every later mine_block call seals a block; a mine_block call that follows
\* a mine_block call seals a block whose only transaction is the reward
\* transaction the first one left pending
C30_PendingNeverEmptyAfterMine ==
    /\ [](Len(chain) > 1 => pending_transactions # <<>>)
    /\ [][(Len(chain) > 1 /\ last'.op = "mine_block") =>
              /\ last'.ret # None
              /\ Len(chain') = Len(chain) + 1
              /\ last'.ret[1].index = Len(chain)]_vars
    /\ [][(MineDone /\ last.ret # None /\ last'.op = "mine_block") =>
              /\ Len(pending_transactions) = 1
              /\ Last(chain').transactions = pending_transactions
              /\ pending_transactions[1].sender = "system"
              /\ pending_transactions[1].amount = mining_reward
              /\ last'.ret[1].transaction_count = 1]_vars

\* C30 witness: a third block sealed by a mine_block call that found only
\* the reward of the mine_block call before it
C30_Witness ==
    /\ MineDone
    /\ last.ret # None
    /\ Len(chain) = 3
    /\ last.pend0 = 1
    /\ Len(Last(chain).transactions) = 1
    /\ Last(chain).transactions[1].amount = mining_reward

(* ------------------------ what the back-fill touches -------------------- *)
\* the ids of the records that some transaction of the block embeds
EmbeddedIn(block) ==
    {block.transactions[j].data.data.record_id :
        j \in {i \in 1..Len(block.transactions) : EmbedsRecordId(block.transactions[i])}}

\* C26: a mine_block call that seals a block adds and removes no row of
\* data_records, leaves every row whose id no transaction of the block
\* embeds as it was, and changes at most blockchain_block_index in the
\* others; a block none of whose transactions embeds a record id changes
\* no row
C26_BackfillTouchesOnlyLinked ==
    [][(last'.op = "mine_block" /\ last'.ret # None) =>
          /\ DOMAIN db'.data_records = DOMAIN db.data_records
          /\ \A r \in DOMAIN db.data_records :
                 IF r \in EmbeddedIn(Last(chain'))
                 THEN [db'.data_records[r] EXCEPT !.blockchain_block_index = None]
                         = [db.data_records[r] EXCEPT !.blockchain_block_index = None]
                 ELSE db'.data_records[r] = db.data_records[r]]_vars

\* C26 witness: a sealed block that holds a reward, a model_creation or
\* another transaction without record id next to one that embeds a record
\* id, while a record that the block does not embed is stored
C26_Witness ==
    /\ MineDone
    /\ last.ret # None
    /\ \E j \in 1..Len(Last(chain).transactions) :
           ~EmbedsRecordId(Last(chain).transactions[j])
    /\ EmbeddedIn(Last(chain)) # {}
    /\ DOMAIN db.data_records \ EmbeddedIn(Last(chain)) # {}

(* ------------------------------ search_data ----------------------------- *)
\* str.lower() over the letters the texts below are written with
LowerOf == [H |-> "h", I |-> "i"]
Lower(text) ==
    [i \in DOMAIN text |-> IF text[i] \in DOMAIN LowerOf THEN LowerOf[text[i]] ELSE text[i]]

\* needle in hay, both str
Contains(needle, hay) ==
    \E i \in 0..(Len(hay) - Len(needle)) : SubSeq(hay, i + 1, i + Len(needle)) = needle

\* a == b of two payload values: int, bool and float compare by their
\* number, any other pair is equal only within one type
NumericTypes == {"int", "bool", "float"}
PyEq(a, b) ==
    IF a.ty \in NumericTypes /\ b.ty \in NumericTypes THEN a.v = b.v
    ELSE a.ty = b.ty /\ a.v = b.v

\* the ids of the rows in S ordered by created_at, rows of one instant in
\* the order they were inserted
RECURSIVE OrderByCreatedAt(_, _)
OrderByCreatedAt(rows, S) ==
    IF S = {} THEN <<>>
    ELSE LET first == CHOOSE r \in S : \A q \in S :
                          \/ rows[r].created_at < rows[q].created_at
                          \/ rows[r].created_at = rows[q].created_at /\ r <= q
         IN  <<first>> \o OrderByCreatedAt(rows, S \ {first})

\* HyperledgerIntegratedDB.get_all_data; model_name is None or Some(name),
\* and an empty name selects like None
get_all_data(tables, model_name) ==
    LET rows == tables.data_records
        selected == IF model_name # None /\ model_name[1] # ""
                    THEN {r \in DOMAIN rows : rows[r].model_name = model_name[1]}
                    ELSE DOMAIN rows
        ids == OrderByCreatedAt(rows, selected)
    IN  [i \in DOMAIN ids |->
            [id |-> ids[i],
             model_name |-> rows[ids[i]].model_name,
             data |-> JsonLoads(rows[ids[i]].data),
             created_at |-> rows[ids[i]].created_at,
             updated_at |-> rows[ids[i]].updated_at,
             blockchain_transaction_id |-> rows[ids[i]].blockchain_transaction_id,
             blockchain_block_index |-> rows[ids[i]].blockchain_block_index]]

\* mutant of Matches: one criterion that holds is enough
Matches_Any(record_data, criteria) ==
    \E key \in DOMAIN criteria :
        /\ key \in DOMAIN record_data
        /\ IF criteria[key].ty = "str" /\ record_data[key].ty = "str"
           THEN Contains(Lower(criteria[key].v), Lower(record_data[key].v))
           ELSE PyEq(record_data[key], criteria[key])

\* lines 526-539: the loop over criteria.items() with its three breaks
Matches(record_data, criteria) ==
    LET RECURSIVE Loop(_)
        Loop(keys) ==
            IF keys = {} THEN TRUE
            ELSE LET key == CHOOSE k \in keys : TRUE
                     value == criteria[key]
                 IN  IF key \notin DOMAIN record_data THEN FALSE
                     ELSE IF value.ty = "str" /\ record_data[key].ty = "str"
                     THEN IF ~Contains(Lower(value.v), Lower(record_data[key].v))
                          THEN FALSE
                          ELSE Loop(keys \ {key})
                     ELSE IF ~PyEq(record_data[key], value) THEN FALSE
                     ELSE Loop(keys \ {key})
    IN  Loop(DOMAIN criteria)

\* HyperledgerIntegratedDB.search_data; criteria is None or Some(dict)
search_data(tables, model_name, criteria) ==
    LET all_data == get_all_data(tables, model_name)
        Match(record) == Matches(record.data, criteria[1])
    IN  IF criteria = None \/ criteria[1] = EmptyDict THEN all_data
        ELSE SelectSeq(all_data, Match)

\* the model the searched records belong to: one optional text field;
\* payloads may carry keys the model does not name
SearchFields == << [name |-> "s", type |-> "text", required |-> FALSE] >>
SearchModels == {"Item", "Memo"}

\* the payloads of the records: 30 as a number and as a text, a text in
\* mixed case, a record without the text
SearchPayloads ==
    << [n |-> PyInt(30), s |-> PyStr(<<"H", "i", "p">>)],
       [n |-> PyInt(30)],
       [n |-> PyStr(<<"3", "0">>), s |-> PyStr(<<"h", "o">>)],
       [n |-> PyBool(1)] >>

\* the criteria: none, empty, a number, a text for the number, a text in
\* another case, two at once, a key no record has
SearchCriteria ==
    << None, Some(EmptyDict),
       Some([n |-> PyInt(30)]),
       Some([n |-> PyStr(<<"3", "0">>)]),
       Some([n |-> PyInt(1)]),
       Some([s |-> PyStr(<<"H", "I">>)]),
       Some([n |-> PyInt(30), s |-> PyStr(<<"h", "I">>)]),
       Some([z |-> PyInt(30)]) >>

SearchNames == {None, Some(""), Some("Item"), Some("Memo"), Some("Ghost")}

\* the most records a searched store holds
MaxRecords == 2

SearchAdds ==
    UNION {[1..n -> [model_name : SearchModels, payload : DOMAIN SearchPayloads]] :
              n \in 0..MaxRecords}

RECURSIVE AddAll(_, _)
AddAll(s, adds) ==
    IF adds = <<>> THEN s
    ELSE AddAll(add_data(s, adds[1].model_name, SearchPayloads[adds[1].payload], 0, 0,
                         NoFault).s,
                Tail(adds))

\* a session in which the two models were created and the records of adds added
SearchSession(adds) ==
    LET s0 == [chain |-> <<create_genesis_block(0)>>, pending |-> <<>>, difficulty |-> 0,
               data_models |-> <<>>, db |-> EmptyTables, disk |-> EmptyTables,
               nextId |-> 1, now |-> 0]
        s1 == create_data_model(s0, "Item", SearchFields, "", 0, 0, NoFault).s
        s2 == create_data_model(s1, "Memo", SearchFields, "", 0, 0, NoFault).s
    IN  AddAll(s2, adds)

InState(s) ==
    /\ chain = s.chain
    /\ pending_transactions = s.pending
    /\ difficulty = s.difficulty
    /\ data_models = s.data_models
    /\ db = s.db
    /\ disk = s.disk
    /\ nextId = s.nextId
    /\ now = s.now
    /\ sealing = Idle

SearchInit ==
    \E adds \in SearchAdds, m \in SearchNames, c \in DOMAIN SearchCriteria :
        /\ InState(SearchSession(adds))
        /\ last = [op |-> "input", arg |-> [model_name |-> m, criteria |-> SearchCriteria[c]],
                   ret |-> None,
                   chain0 |-> 0, pend0 |-> 0, adds |-> 0, base |-> 0]

Search ==
    /\ last.op = "input"
    /\ last' = [last EXCEPT !.op = "search_data",
                             !.ret = Some([records |-> search_data(db, last.arg.model_name,
                                                                   last.arg.criteria)])]
    /\ UNCHANGED <<chain, pending_transactions, difficulty, store, now, sealing>>

SearchNext == Search

\* search_data called once on a store that holds up to MaxRecords records
SearchSpec == SearchInit /\ [][SearchNext]_vars

SearchDone == last.op = "search_data"

\* the stored value satisfies the criterion value
Satisfies(stored, value) ==
    IF value.ty = "str" /\ stored.ty = "str"
    THEN \E i \in 0..(Len(stored.v) - Len(value.v)) :
            Lower(SubSeq(stored.v, i + 1, i + Len(value.v))) = Lower(value.v)
    ELSE /\ value.ty # "str"
         /\ stored.ty # "str"
         /\ PyEq(stored, value)

\* C24: search_data returns, each once, the records of the named model
\* (of every model when none is named) whose data holds every key of the
\* criteria with a value that satisfies the criterion: a text that contains
\* the criterion text whatever the case when both are texts, an equal value
\* otherwise, so that a text never equals a number; without criteria, or
\* with empty ones, it returns them all
C24_SearchIsConjunction ==
    SearchDone =>
        LET found == last.ret[1].records
            name == last.arg.model_name
            criteria == last.arg.criteria
            rows == db.data_records
            Wanted(r) ==
                /\ (name # None /\ name[1] # "") => rows[r].model_name = name[1]
                /\ (criteria # None /\ criteria[1] # EmptyDict) =>
                       \A key \in DOMAIN criteria[1] :
                           /\ key \in DOMAIN rows[r].data.json
                           /\ Satisfies(rows[r].data.json[key], criteria[1][key])
        IN  /\ {found[i].id : i \in DOMAIN found} = {r \in DOMAIN rows : Wanted(r)}
            /\ Cardinality({found[i].id : i \in DOMAIN found}) = Len(found)
            /\ \A i \in DOMAIN found :
                   /\ found[i].data = rows[found[i].id].data.json
                   /\ found[i].model_name = rows[found[i].id].model_name

\* C24 witness: of two records of one model that hold the number 30, the
\* search for 30 and for a text in another case returns the one that holds
\* the text and not the one without it
C24_Witness ==
    /\ SearchDone
    /\ last.arg.criteria # None
    /\ DOMAIN last.arg.criteria[1] = {"n", "s"}
    /\ Cardinality(DOMAIN db.data_records) = 2
    /\ \A r \in DOMAIN db.data_records :
           /\ db.data_records[r].data.json.n.ty = "int"
           /\ db.data_records[r].data.json.n.v = 30
    /\ Len(last.ret[1].records) = 1
    /\ last.ret[1].records[1].data.s.v = <<"H", "i", "p">>
    /\ last.arg.criteria[1].s.v = <<"h", "I">>

(* ------------------------- closing and reopening ------------------------ *)
PyTuple(n) == [ty |-> "tuple", v |-> n]

\* the field lists of the models that are reloaded: defaults of several
\* types, one of them a tuple
ReloadFieldSpecs ==
    { << [name |-> "qty", type |-> "integer"] >>,
      << [name |-> "note", type |-> "text", required |-> FALSE, default |-> PyStr(0)],
         [name |-> "tags", type |-> "json", required |-> FALSE, default |-> PyList(1)] >>,
      << [name |-> "tags", type |-> "json", required |-> FALSE, default |-> PyTuple(1)],
         [name |-> "qty", type |-> "integer", default |-> PyInt(7)] >> }

ReloadModelNames == {"Item", "Memo"}

Reload(t) ==
    /\ last.op # "reload"
    /\ Apply(load_existing_data(Session, t))
    /\ last' = Call("reload", None, None, 0, 0)

ReloadNext ==
    \/ \E n \in ReloadModelNames, f \in ReloadFieldSpecs, t1 \in Ticks(now) :
            \E t2 \in Ticks(t1) : CreateDataModel(n, f, t1, t2, NoFault)
    \/ \E t1 \in Ticks(now) : \E t2 \in Ticks(t1) : MineBlock(t1, t2, NoFault)
    \/ \E t \in Ticks(now) : Reload(t)

\* sessions that create models, mine, and are closed and opened again
ReloadSpec == Init /\ [][ReloadNext]_vars

ReloadDone == last.op = "reload"

\* C27 as stated: closing the session and opening it again gives, for every
\* model of the registry, a model of the same name whose fields have the
\* same number, names, order, type tags, required flags and defaults
C27_RoundTrip ==
    [][last'.op = "reload" =>
          \A n \in DOMAIN data_models :
              /\ n \in DOMAIN data_models'
              /\ data_models'[n].name = n
              /\ Len(data_models'[n].fields) = Len(data_models[n].fields)
              /\ \A i \in DOMAIN data_models[n].fields :
                     /\ data_models'[n].fields[i].name = data_models[n].fields[i].name
                     /\ data_models'[n].fields[i].type = data_models[n].fields[i].type
                     /\ data_models'[n].fields[i].required
                            = data_models[n].fields[i].required
                     /\ data_models'[n].fields[i].default
                            = data_models[n].fields[i].default]_vars

(* --------------------- every write of every method may fail ------------- *)
\* the cursor.execute or commit call that raises (0: none). add_data: the
\* INSERT of the record, the INSERT of the transaction, the UPDATE that links
\* them, the commit; update_data: the UPDATE, the INSERT of the transaction,
\* the commit; mine_block: the INSERT of the block, the commit
AddFaults == 0..4
UpdateFaults == 0..3
MineFaults == 0..2

\* the ids uuid4 gives in a session whose writes may fail
MaxErrorIds == 4

\* the calls of add_data and update_data in a session whose writes may
\* fail: a payload that passes, one that does not, a model and a record
\* that do not exist
ErrorAddCalls ==
    {[model_name |-> "Item", data |-> [qty |-> PyInt(1)]],
     [model_name |-> "Item", data |-> EmptyDict],
     [model_name |-> "Ghost", data |-> [qty |-> PyInt(1)]]}

ErrorUpdateCalls ==
    {[record_id |-> id, data |-> p] :
        id \in DOMAIN db.data_records, p \in {[qty |-> PyInt(2), note |-> PyStr(1)], EmptyDict}}
        \cup {[record_id |-> UnknownId, data |-> [qty |-> PyInt(1)]]}

\* a new session of difficulty 0
ErrorInit == Init /\ difficulty = 0 /\ now = 0

\* the calls of a session whose writes may fail; the clock stands still
ErrorNext ==
    \/ /\ nextId <= MaxErrorIds
       /\ \E n \in ModelNames, f \in FieldSpecs, fail \in {NoFault} \cup CreateFaults :
              CreateDataModel(n, f, now, now, fail)
    \/ /\ nextId <= MaxErrorIds
       /\ \E c \in ErrorAddCalls, fail \in AddFaults :
              AddData(c.model_name, c.data, now, now, fail)
    \/ /\ nextId <= MaxErrorIds
       /\ \E c \in ErrorUpdateCalls, fail \in UpdateFaults :
              UpdateData(c.record_id, c.data, now, now, fail)
    \/ /\ nextId <= MaxErrorIds
       /\ \E fail \in MineFaults : MineBlock(now, now, fail)

\* every behaviour of one session of the store in which any write may raise
ErrorSpec == ErrorInit /\ [][ErrorNext]_vars

\* the field list makes create_data_model raise before it writes anything
CreateMustFail(a) ==
    \E i \in DOMAIN a.fields : "name" \notin DOMAIN a.fields[i] \/ "type" \notin DOMAIN a.fields[i]

\* C21: create_data_model, add_data, update_data and mine_block always
\* return a value of their return type, and return False (create_data_model,
\* update_data) or None (add_data, mine_block) whenever a database write
\* raises or the arguments do not pass: a field dict without name or type,
\* an unknown model, an unknown record, a payload that fails validation
C21_NoErrorEscapes ==
    [][/\ last'.op = "create_data_model" =>
            /\ last'.ret[1].ok \in BOOLEAN
            /\ (last'.arg.fail # NoFault \/ CreateMustFail(last'.arg)) => ~last'.ret[1].ok
       /\ last'.op = "add_data" =>
            /\ last'.ret # None => last'.ret[1].id \in DOMAIN db'.data_records
            /\ (last'.arg.fail # NoFault \/ AddMustFail(last'.arg)) => last'.ret = None
       /\ last'.op = "update_data" =>
            /\ last'.ret[1].ok \in BOOLEAN
            /\ (last'.arg.fail # NoFault \/ UpdateMustFail(last'.arg)) => ~last'.ret[1].ok
       /\ last'.op = "mine_block" =>
            /\ last'.ret # None => last'.ret[1].index = Len(chain)
            /\ (last'.arg.fail # NoFault \/ pending_transactions = <<>>)
                   => last'.ret = None]_vars

\* C21 witness: a mine_block call whose commit raised after the block was
\* sealed, and that returned None
C21_Witness ==
    /\ MineDone
    /\ last.arg.fail = 2
    /\ last.ret = None
    /\ Len(chain) = last.chain0 + 1
    /\ db # disk

(* -------------- mine_pending_transactions, statement by statement ------- *)
\* the transactions a caller stages while a block is being sealed
RacingSenders == {"bob"}

\* lines 70-76: the block is built over the pending list itself
SealBuild(miner, t) ==
    /\ sealing.pc = "idle"
    /\ Len(chain) < MaxChain
    /\ sealing' = [sealing EXCEPT
                      !.pc = "search",
                      !.block = Some(Block(Len(chain), pending_transactions, t,
                                           get_latest_block(chain).hash, 0)),
                      !.miner = miner]
    /\ now' = t
    /\ UNCHANGED <<chain, pending_transactions, difficulty, store, last>>

\* lines 100-102, one turn of the loop: the test of the hash the block
\* has, and with it the end of the search or the next nonce and its hash
SealStep ==
    /\ sealing.pc = "search"
    /\ LET block == sealing.block[1]
           n == [block EXCEPT !.nonce = block.nonce + 1]
       IN  sealing' = IF Prefix(block.hash, difficulty) = Zeros(difficulty)
                      THEN [sealing EXCEPT !.pc = "mined"]
                      ELSE [sealing EXCEPT !.block = Some([n EXCEPT !.hash = calculate_hash(n)])]
    /\ UNCHANGED <<chain, pending_transactions, difficulty, store, now, last>>

\* line 81: self.chain.append(block)
SealAppend ==
    /\ sealing.pc = "mined"
    /\ chain' = Append(chain, sealing.block[1])
    /\ sealing' = [sealing EXCEPT !.pc = "appended", !.block = None]
    /\ UNCHANGED <<pending_transactions, difficulty, store, now, last>>

\* mutant of SealReset: the pending list is emptied in place
SealReset_InPlace(t) ==
    /\ sealing.pc = "appended"
    /\ pending_transactions' = <<RewardTx(sealing.miner, t)>>
    /\ chain' = [chain EXCEPT ![Len(chain)].transactions = <<RewardTx(sealing.miner, t)>>]
    /\ now' = t
    /\ last' = Call("mine_pending_transactions", [miner |-> sealing.miner],
                    Some(Last(chain')), 0, 0)
    /\ sealing' = [Idle EXCEPT !.raced = sealing.raced]
    /\ UNCHANGED <<difficulty, store>>

\* lines 84-94: self.pending_transactions is bound to a new list that holds
\* the reward, and the block is returned
SealReset(t) ==
    /\ sealing.pc = "appended"
    /\ pending_transactions' = <<RewardTx(sealing.miner, t)>>
    /\ now' = t
    /\ last' = Call("mine_pending_transactions", [miner |-> sealing.miner],
                    Some(Last(chain)), 0, 0)
    /\ sealing' = [Idle EXCEPT !.raced = sealing.raced]
    /\ UNCHANGED <<chain, difficulty, store>>

\* add_transaction called by another caller: line 65 appends to the list
\* self.pending_transactions is bound to, which is the list of the block
\* from the moment the block is built to the moment the name is bound anew
Stage(sender, recipient, amount, data, t) ==
    LET r == add_transaction(chain, pending_transactions, sender, recipient, amount, data, t)
    IN  /\ Len(pending_transactions) < MaxPending
        /\ pending_transactions' = r.pending
        /\ chain' = IF sealing.pc = "appended"
                    THEN [chain EXCEPT ![Len(chain)].transactions = r.pending]
                    ELSE chain
        /\ sealing' = IF sealing.pc \in {"search", "mined"}
                      THEN [sealing EXCEPT !.block[1].transactions = r.pending,
                                           !.raced = TRUE]
                      ELSE IF sealing.pc = "appended"
                      THEN [sealing EXCEPT !.raced = TRUE]
                      ELSE sealing
        /\ now' = t
        /\ last' = Call("add_transaction",
                        [sender |-> sender, recipient |-> recipient, amount |-> amount,
                         data |-> data],
                        Some([index |-> r.ret]), 0, 0)
        /\ UNCHANGED <<difficulty, store>>

ConcurrentNext ==
    \/ \E m \in Miners, t \in Ticks(now) : SealBuild(m, t)
    \/ SealStep
    \/ SealAppend
    \/ \E t \in Ticks(now) : SealReset(t)
    \/ \E s \in RacingSenders, r \in Recipients, a \in Amounts, t \in Ticks(now) :
            Stage(s, r, a, None, t)

\* a Blockchain whose add_transaction may run between any two statements of
\* a mine_pending_transactions call
ConcurrentSpec == Init /\ [][ConcurrentNext]_vars

\* the transaction is in the list
InList(tx, txs) == \E i \in DOMAIN txs : txs[i] = tx

\* C22: as long as no add_transaction ran between the statements of a
\* mine_pending_transactions call, every block of the chain has the hash of
\* its fields, the chain is valid, and when the call has returned the new
\* block holds the transactions that were pending and none of them is
\* pending any more
C22_AtomicIsSafe ==
    ~sealing.raced =>
        /\ \A i \in DOMAIN chain : HashConsistent(chain[i])
        /\ is_chain_valid(chain)
        /\ (SealDone /\ sealing.pc = "idle") =>
               /\ Len(Last(chain).transactions) = last.pend0
               /\ \A i \in DOMAIN pending_transactions :
                      ~IsStaged(pending_transactions[i])

\* C22 witness: add_transaction ran between the append of the block and
\* the reset of the pending list: the call returned a block whose hash is
\* not the hash of its fields, is_chain_valid is False, and the staged
\* transaction is not pending
C22_Witness ==
    /\ sealing.raced
    /\ sealing.pc = "idle"
    /\ SealDone
    /\ ~HashConsistent(Last(chain))
    /\ ~is_chain_valid(chain)
    /\ \E i \in DOMAIN Last(chain).transactions :
           /\ Last(chain).transactions[i].sender = "bob"
           /\ ~InList(Last(chain).transactions[i], pending_transactions)

(* ------------------------ the chain after a reload ---------------------- *)
\* C31 as stated: a session opened on a file that holds a sealed block has
\* a chain whose block 1 names the hash of the session's genesis block as
\* previous_hash, and is_chain_valid returns True
C31_ReloadedChainValid ==
    (ReloadDone /\ Len(chain) > 1) =>
        /\ chain[2].previous_hash = chain[1].hash
        /\ is_chain_valid(chain)

\* the ids of the transactions of the store that the list holds
StoreTxIds(txs) ==
    {txs[i].data.id : i \in {j \in DOMAIN txs : "id" \in DOMAIN txs[j].data}}

\* C32 as stated: after the session is closed and opened again, every
\* transaction that has a row in blockchain_transactions is in a block of
\* the chain or in the pending list, from where the next mine_block seals it
C32_StagedSurviveReload ==
    ReloadDone =>
        \A id \in DOMAIN db.blockchain_transactions :
            id \in StoreTxIds(Flatten(chain)) \cup StoreTxIds(pending_transactions)

(* --------------------- writes that fail half way ------------------------ *)
\* C33 as stated: an add_data or update_data call whose INSERT into
\* blockchain_transactions raises, after its write to data_records went
\* through, returns its failure value and leaves the rows of data_records
\* and the pending list as they were before the call (fail = 2: the
\* second write of the call is the one that raises)
C33_FailedWriteIsAtomic ==
    [][/\ (/\ last'.op = "add_data"
           /\ last'.arg.fail = 2
           /\ ~AddMustFail(last'.arg)) =>
              /\ last'.ret = None
              /\ db'.data_records = db.data_records
              /\ pending_transactions' = pending_transactions
       /\ (/\ last'.op = "update_data"
           /\ last'.arg.fail = 2
           /\ ~UpdateMustFail(last'.arg)) =>
              /\ last'.ret = Some([ok |-> FALSE])
              /\ db'.data_records = db.data_records
              /\ pending_transactions' = pending_transactions]_vars

\* C34 as stated: a mine_block call that returns None leaves the chain and
\* the pending list as they were, and every block of the chain but the
\* genesis block has a committed row in blockchain_blocks
C34_FailedMineLeavesLedger ==
    /\ [][(last'.op = "mine_block" /\ last'.ret = None) =>
              /\ chain' = chain
              /\ pending_transactions' = pending_transactions]_vars
    /\ [](\A i \in 2..Len(chain) : chain[i].index \in DOMAIN disk.blockchain_blocks)

(* ------------------- the chain and the rows of its blocks --------------- *)
\* C35: in a session whose writes succeed, closed and opened again or not,
\* the committed rows of blockchain_blocks are those of the blocks of the
\* chain but the genesis block, one row per block under the block's index,
\* with the block's hash, previous_hash, nonce and transactions (as JSON
\* writes them); the chain is one block longer than the table
C35_RowsMatchChain ==
    /\ Len(chain) = Cardinality(DOMAIN disk.blockchain_blocks) + 1
    /\ chain[1].index \notin DOMAIN disk.blockchain_blocks
    /\ \A i \in 2..Len(chain) :
           /\ chain[i].index \in DOMAIN disk.blockchain_blocks
           /\ \A j \in 2..Len(chain) : chain[j].index = chain[i].index => j = i
           /\ LET row == disk.blockchain_blocks[chain[i].index]
              IN  /\ row.hash = chain[i].hash
                  /\ row.previous_hash = chain[i].previous_hash
                  /\ row.nonce = chain[i].nonce
                  /\ JsonLoads(row.transactions_data) = JsonTxs(chain[i].transactions)

\* C35 witness: a session opened on a file of two blocks, the second
\* holding a model_creation transaction
C35_Witness ==
    /\ ReloadDone
    /\ Len(chain) = 3
    /\ StoreTxIds(chain[3].transactions) # {}

\* C36: every block of the chain has its position, counted from 0, as
\* index; a mine_block call makes the chain one block longer, opening the
\* session again leaves its length, and no call makes it shorter
C36_IndexIsPosition ==
    /\ [](\A i \in DOMAIN chain : chain[i].index = i - 1)
    /\ [][/\ Len(chain') >= Len(chain)
          /\ (last'.op = "mine_block" /\ last'.ret # None) => Len(chain') = Len(chain) + 1
          /\ last'.op # "mine_block" => Len(chain') = Len(chain)]_vars

\* C36 witness: a block mined in a session that was opened on a file that
\* held a block
C36_Witness ==
    /\ MineDone
    /\ last.ret # None
    /\ Len(chain) = 3
    /\ chain[1].timestamp > chain[2].timestamp

(* ------------------------- when a reward counts ------------------------- *)
\* every block of the chain was sealed by miner m: the reward each seal
\* left pending is the first transaction of the next block, and the reward
\* of the last seal is the one pending transaction that names m
SealedOnlyBy(m) ==
    /\ Len(chain) > 1
    /\ \A i \in 3..Len(chain) :
           /\ chain[i].transactions # <<>>
           /\ chain[i].transactions[1].sender = "system"
           /\ chain[i].transactions[1].recipient = m
    /\ pending_transactions # <<>>
    /\ pending_transactions[1].sender = "system"
    /\ pending_transactions[1].recipient = m

\* C37: for a miner that no staged transaction names, after k >= 1 calls
\* of mine_pending_transactions, all for that miner, get_balance gives
\* (k - 1) * mining_reward, and the reward of the last call is pending and
\* in no block
C37_RewardCountsWhenSealed ==
    SealedOnlyBy("miner") =>
        /\ get_balance(chain, "miner") = (Len(chain) - 2) * mining_reward
        /\ pending_transactions[1].amount = mining_reward
        /\ Cardinality({p \in Positions(chain) :
                            chain[p[1]].transactions[p[2]].recipient = "miner"})
               = Len(chain) - 2

\* C37 witness: the second seal for the miner has returned, with
\* transactions of other callers staged before it
C37_Witness ==
    /\ SealDone
    /\ last.arg.miner = "miner"
    /\ SealedOnlyBy("miner")
    /\ Len(chain) = 3
    /\ Len(chain[3].transactions) = 2
    /\ get_balance(chain, "miner") = mining_reward

====
